---- MODULE Spec2Model ----
(***************************************************************************)
(* A model of the lumina playback transport and note-activation engine:    *)
(* the reference-counted highlight state (services/highlightState.ts), the *)
(* highlight event queue and look-ahead scheduler with the calls it makes  *)
(* to the MIDI output, and the transport handlers of App.tsx.              *)
(*                                                                         *)
(* Wall-clock instants are milliseconds, song times are seconds, as in the *)
(* source.  Both are exact rationals <<numerator, denominator>> so that    *)
(* the epoch arithmetic (a division by the playback rate) is computed as   *)
(* the code computes it, up to floating-point rounding.                    *)
(***************************************************************************)
EXTENDS Integers, Sequences, FiniteSets, TLC

VARIABLES
    now,                \* performance.now(), in ms
    nextTickAt,         \* when the setInterval(scheduleNotes) timer fires next
    resumeTimers,       \* pending setTimeout callbacks of performUndo/performRedo
    midiData,           \* React state: the loaded song
    isPlaying,          \* React state
    currentTime,        \* React state, "for UI only"
    playbackRate,       \* React state
    highlightState,     \* React state: the HighlightState value
    history,            \* React state: undo stack
    future,             \* React state: redo stack
    startTimeRef,       \* ref: wall-clock epoch of song time 0, in ms
    pauseTimeRef,       \* ref: song time while not playing, in s
    nextNoteIndexRefs,  \* ref: per-track cursor (0-based, as in the source)
    highlightQueueRef,  \* ref: the not-yet-due highlight events
    midiListenerEnv,    \* the render values closed over by the MIDI-input listener
    inputs,             \* live-input messages received so far
    outputSettings,     \* React state: output device and latency compensation
    sinkCalls,          \* the calls made to the output sink (webMidiService), in order
    pendingParse,       \* the parseMidiFile promises of handleFileUpload not yet settled
    last,               \* history: the last handler that ran (the clock and frames aside)
    ops,                \* history: number of user operations so far
    hist                \* history: tallies of the events applied in SpecHL

transportVars == <<now, nextTickAt, resumeTimers, midiData, isPlaying, currentTime, playbackRate, history, future, startTimeRef, pauseTimeRef, nextNoteIndexRefs, midiListenerEnv, inputs, outputSettings, sinkCalls, pendingParse>>

vars == <<transportVars, highlightState, highlightQueueRef, last, ops, hist>>

---------------------------------------------------------------------------
(* Bounds of the model. *)

\* longest sequence of highlight-state operations explored by SpecHL
MaxLog == 4
\* wall-clock horizon of Spec, in scheduler intervals
MaxTicks == 2
\* wall-clock horizon of SpecPlay, in scheduler intervals
MaxPlayTicks == 6
\* live-input messages per behaviour
MaxInputs == 1
\* user operations (transport handlers, track toggles) per behaviour
MaxOps == 3

\* the sink calls of one scheduler run that may be the one that throws
MaxThrowAt == 2
\* sink calls that throw per behaviour
MaxThrows == 1
\* events pushed on the queue per behaviour of the queue on its own
MaxPushes == 3
\* wall-clock horizon of SpecRepeat, in scheduler intervals
MaxRepeatTicks == 9

---------------------------------------------------------------------------
(* services/highlightState.ts *)

NOTE_COUNT == 128

\* The note numbers whose array slots the model keeps (a slice of 0..127).
NoteNumbers == {60, 61}
\* Note numbers an event may carry; 128 is out of range.
EventNoteNumbers == NoteNumbers \cup {NOTE_COUNT}
\* Source keys: String(track.id) of two tracks, and live input.
SourceKeys == {"0", "1", "input"}

\* A JS Map: a function whose domain is the set of keys present.
EmptyMap == <<>>

MapHas(m, k) == k \in DOMAIN m

MapGetOr(m, k, d) == IF k \in DOMAIN m THEN m[k] ELSE d

MapSet(m, k, v) == [x \in (DOMAIN m) \cup {k} |-> IF x = k THEN v ELSE m[x]]

MapDelete(m, k) == [x \in (DOMAIN m) \ {k} |-> m[x]]

Max(a, b) == IF a >= b THEN a ELSE b

\* `${sourceKey}:${noteNumber}`; source keys hold no ':' so the key splits
\* back into exactly this pair.
ActiveKey(sourceKey, noteNumber) == <<sourceKey, noteNumber>>

KeySource(activeKey) == activeKey[1]

KeyNote(activeKey) == activeKey[2]

createHighlightState == [countsByActiveKey |-> EmptyMap, totalsByNote |-> [n \in NoteNumbers |-> 0], sourcesByNote |-> [n \in NoteNumbers |-> EmptyMap]]

\* clampNoteNumber's null result
NullNote == -1

clampNoteNumber(noteNumber) == IF noteNumber < 0 \/ noteNumber >= NOTE_COUNT THEN NullNote ELSE noteNumber

HighlightEvent(type, noteNumber, sourceKey, timeMs) == [type |-> type, noteNumber |-> noteNumber, sourceKey |-> sourceKey, timeMs |-> timeMs]

\* A note-on that counts the pitch's total and sources without recording the
\* (source, pitch) key as active.
applyOnWithoutActiveKey(state, noteNumber, sourceKey) ==
    LET activeKey == ActiveKey(sourceKey, noteNumber)
        sourceCounts == state.sourcesByNote[noteNumber]
        currentCount == MapGetOr(state.countsByActiveKey, activeKey, 0)
        sourceCount == MapGetOr(sourceCounts, sourceKey, 0)
    IN  [countsByActiveKey |-> state.countsByActiveKey,
         sourcesByNote |-> [state.sourcesByNote EXCEPT ![noteNumber] = MapSet(sourceCounts, sourceKey, sourceCount + 1)],
         totalsByNote |-> [state.totalsByNote EXCEPT ![noteNumber] = @ + 1]]

applyOn(state, noteNumber, sourceKey) ==
    LET activeKey == ActiveKey(sourceKey, noteNumber)
        sourceCounts == state.sourcesByNote[noteNumber]
        currentCount == MapGetOr(state.countsByActiveKey, activeKey, 0)
        sourceCount == MapGetOr(sourceCounts, sourceKey, 0)
    IN  [countsByActiveKey |-> MapSet(state.countsByActiveKey, activeKey, currentCount + 1),
         sourcesByNote |-> [state.sourcesByNote EXCEPT ![noteNumber] = MapSet(sourceCounts, sourceKey, sourceCount + 1)],
         totalsByNote |-> [state.totalsByNote EXCEPT ![noteNumber] = @ + 1]]

\* A note-off that clears the key outright, as a set-based highlight would.
applyOffBoolean(state, noteNumber, sourceKey) ==
    LET activeKey == ActiveKey(sourceKey, noteNumber)
        sourceCounts == state.sourcesByNote[noteNumber]
        currentCount == MapGetOr(state.countsByActiveKey, activeKey, 0)
    IN  [countsByActiveKey |-> MapDelete(state.countsByActiveKey, activeKey),
         sourcesByNote |-> [state.sourcesByNote EXCEPT ![noteNumber] = MapDelete(sourceCounts, sourceKey)],
         totalsByNote |-> [state.totalsByNote EXCEPT ![noteNumber] = Max(0, @ - currentCount)]]

\* A note-off whose total is decremented without the floor at zero.
applyOffUnclampedTotal(state, noteNumber, sourceKey) ==
    LET activeKey == ActiveKey(sourceKey, noteNumber)
        sourceCounts == state.sourcesByNote[noteNumber]
        nextCount == Max(0, MapGetOr(state.countsByActiveKey, activeKey, 0) - 1)
    IN  [countsByActiveKey |-> IF nextCount = 0 THEN MapDelete(state.countsByActiveKey, activeKey)
                                                ELSE MapSet(state.countsByActiveKey, activeKey, nextCount),
         sourcesByNote |-> [state.sourcesByNote EXCEPT ![noteNumber] =
                               IF nextCount = 0 THEN MapDelete(sourceCounts, sourceKey)
                                                ELSE MapSet(sourceCounts, sourceKey, nextCount)],
         totalsByNote |-> [state.totalsByNote EXCEPT ![noteNumber] = @ - 1]]

applyOff(state, noteNumber, sourceKey) ==
    LET activeKey == ActiveKey(sourceKey, noteNumber)
        sourceCounts == state.sourcesByNote[noteNumber]
        currentCount == MapGetOr(state.countsByActiveKey, activeKey, 0)
        nextCount == Max(0, currentCount - 1)
        sourceCount == MapGetOr(sourceCounts, sourceKey, 0)
        nextSourceCount == Max(0, sourceCount - 1)
    IN  [countsByActiveKey |-> IF nextCount = 0 THEN MapDelete(state.countsByActiveKey, activeKey)
                                                ELSE MapSet(state.countsByActiveKey, activeKey, nextCount),
         sourcesByNote |-> [state.sourcesByNote EXCEPT ![noteNumber] =
                               IF nextSourceCount = 0 THEN MapDelete(sourceCounts, sourceKey)
                                                      ELSE MapSet(sourceCounts, sourceKey, nextSourceCount)],
         totalsByNote |-> [state.totalsByNote EXCEPT ![noteNumber] = Max(0, @ - 1)]]

applyHighlightEventInPlace(state, event) ==
    IF clampNoteNumber(event.noteNumber) = NullNote THEN state
    ELSE IF event.type = "on" THEN applyOn(state, event.noteNumber, event.sourceKey)
    ELSE applyOff(state, event.noteNumber, event.sourceKey)

RECURSIVE applyHighlightEvents(_, _)
applyHighlightEvents(state, events) ==
    IF events = <<>> THEN state
    ELSE applyHighlightEvents(applyHighlightEventInPlace(state, Head(events)), Tail(events))

\* One iteration of the loop of clearHighlightsByPredicate, for a key whose
\* source matches the predicate.
clearOneKey(next, activeKey, count) ==
    LET sourceKey == KeySource(activeKey)
        noteNumber == KeyNote(activeKey)
        sourceCounts == next.sourcesByNote[noteNumber]
        prevSourceCount == MapGetOr(sourceCounts, sourceKey, 0)
        nextSourceCount == Max(0, prevSourceCount - count)
    IN  [countsByActiveKey |-> MapDelete(next.countsByActiveKey, activeKey),
         totalsByNote |-> [next.totalsByNote EXCEPT ![noteNumber] = Max(0, @ - count)],
         sourcesByNote |-> [next.sourcesByNote EXCEPT ![noteNumber] =
                               IF nextSourceCount = 0 THEN MapDelete(sourceCounts, sourceKey)
                                                      ELSE MapSet(sourceCounts, sourceKey, nextSourceCount)]]

\* The loop over state.countsByActiveKey.entries(); the iterations touch
\* disjoint keys and subtract from the totals, so their order is immaterial.
RECURSIVE clearKeys(_, _, _)
clearKeys(state, next, keys) ==
    IF keys = {} THEN next
    ELSE LET k == CHOOSE x \in keys : TRUE
         IN  clearKeys(state, clearOneKey(next, k, state.countsByActiveKey[k]), keys \ {k})

\* predicate is given as the set of source keys it accepts
clearHighlightsByPredicate(state, accepted) ==
    IF DOMAIN state.countsByActiveKey = {} THEN state
    ELSE clearKeys(state, state, {k \in DOMAIN state.countsByActiveKey : KeySource(k) \in accepted})

clearHighlightsForSource(state, sourceKey) == clearHighlightsByPredicate(state, {sourceKey})

\* a clear that does not spare the live input
clearHighlightsEverySource(state) == clearHighlightsByPredicate(state, SourceKeys)

\* a clear whose predicate is inverted: it takes the live input and spares playback
clearHighlightsOnlyInput(state) == clearHighlightsByPredicate(state, {"input"})

clearHighlightsExceptInput(state) == clearHighlightsByPredicate(state, SourceKeys \ {"input"})

buildActiveNotesSet(state) == DOMAIN state.countsByActiveKey

---------------------------------------------------------------------------
(* Exact rational arithmetic: <<numerator, denominator>>, denominator > 0, *)
(* in lowest terms, so that equal numbers are equal values.                *)

Abs(i) == IF i < 0 THEN -i ELSE i

RECURSIVE GCD(_, _)
GCD(a, b) == IF b = 0 THEN a ELSE GCD(b, a % b)

R(n, d) ==
    LET g == GCD(Abs(n), Abs(d))
        sgn == IF d < 0 THEN -1 ELSE 1
    IN  <<(sgn * n) \div g, (sgn * d) \div g>>

FromInt(i) == <<i, 1>>

RAdd(a, b) == R(a[1] * b[2] + b[1] * a[2], a[2] * b[2])

RSub(a, b) == R(a[1] * b[2] - b[1] * a[2], a[2] * b[2])

RMul(a, b) == R(a[1] * b[1], a[2] * b[2])

RDiv(a, b) == R(a[1] * b[2], a[2] * b[1])

RLt(a, b) == a[1] * b[2] < b[1] * a[2]

RLe(a, b) == a[1] * b[2] <= b[1] * a[2]

RMax(a, b) == IF RLe(b, a) THEN a ELSE b

Zero == FromInt(0)

\* milliseconds per second, the 1000 of the epoch formulas
Thousand == FromInt(1000)

---------------------------------------------------------------------------
(* The song model (types.ts) and the songs explored. *)

Note(midi, time, duration) == [midi |-> midi, time |-> time, duration |-> duration]

Track(id, notes) == [id |-> id, notes |-> notes, isHidden |-> FALSE, isMuted |-> FALSE]

\* String(track.id)
String(id) == IF id = 0 THEN "0" ELSE "1"

\* Two tracks; notes sorted by start time as the loader delivers them.
\* Track 0 holds a note, a retrigger of it and a note beyond the first
\* look-ahead window; track 1 holds one short note.
SongTwoTracks ==
    [duration |-> R(1, 10),
     tracks |-> << Track(0, << Note(60, R(3, 100), R(1, 20)), Note(60, R(2, 25), R(1, 50)) >>),
                   Track(1, << Note(61, R(1, 20), R(1, 50)) >>) >>]

\* no output device selected
NoDevice == "null"

\* the initial outputSettings
DefaultSettings == [deviceId |-> NoDevice, latencyCompensation |-> 0]

\* The transport refs and state right after a file has been loaded.
LoadedTransport(song) ==
    /\ now = 0
    /\ nextTickAt = 0
    /\ resumeTimers = {}
    /\ midiData = song
    /\ isPlaying = FALSE
    /\ currentTime = Zero
    /\ playbackRate = FromInt(1)
    /\ history = <<>>
    /\ future = <<>>
    /\ startTimeRef = Zero
    /\ pauseTimeRef = Zero
    /\ nextNoteIndexRefs = [i \in 1..Len(song.tracks) |-> 0]
    /\ midiListenerEnv = [playbackRate |-> FromInt(1), currentTime |-> Zero]
    /\ inputs = 0
    /\ outputSettings = DefaultSettings
    /\ sinkCalls = <<>>
    /\ pendingParse = {}

---------------------------------------------------------------------------
(* The highlight state on its own: any event lists, any clears. *)

EventTypes == {"on", "off"}

\* Events as a caller of applyHighlightEvents may build them (timeMs is not
\* read by the counting code and is fixed here).
HLEvents == {HighlightEvent(t, n, s, Zero) : t \in EventTypes, n \in EventNoteNumbers, s \in SourceKeys}

NoKey == <<"none", -1>>

\* Tallies of the events applied so far:
\*   ons, offs  events per in-range note number
\*   net        per note number, +1 per On, -1 per Off but never below zero
\*   run        whether the events so far are n Ons then m <= n Offs of one
\*              (source, note) pair and nothing else
\*   cleared    whether a clear operation has been applied
\*   len        events and clears applied
NoTally ==
    [ons |-> [n \in NoteNumbers |-> 0], offs |-> [n \in NoteNumbers |-> 0], net |-> [n \in NoteNumbers |-> 0],
     run |-> [ok |-> TRUE, key |-> NoKey, n |-> 0, m |-> 0], cleared |-> FALSE, len |-> 0]

TallyRun(run, e) ==
    LET key == ActiveKey(e.sourceKey, e.noteNumber)
    IN  IF ~run.ok \/ e.noteNumber \notin NoteNumbers THEN [run EXCEPT !.ok = FALSE]
        ELSE IF e.type = "on"
             THEN IF run.key \in {NoKey, key} /\ run.m = 0
                  THEN [run EXCEPT !.key = key, !.n = @ + 1]
                  ELSE [run EXCEPT !.ok = FALSE]
             ELSE IF run.key = key /\ run.m < run.n
                  THEN [run EXCEPT !.m = @ + 1]
                  ELSE [run EXCEPT !.ok = FALSE]

TallyEvent(h, e) ==
    LET n == e.noteNumber
        inRange == n \in NoteNumbers
    IN  [ons |-> IF inRange /\ e.type = "on" THEN [h.ons EXCEPT ![n] = @ + 1] ELSE h.ons,
         offs |-> IF inRange /\ e.type = "off" THEN [h.offs EXCEPT ![n] = @ + 1] ELSE h.offs,
         net |-> IF ~inRange THEN h.net
                 ELSE IF e.type = "on" THEN [h.net EXCEPT ![n] = @ + 1]
                 ELSE [h.net EXCEPT ![n] = Max(0, @ - 1)],
         run |-> TallyRun(h.run, e),
         cleared |-> h.cleared,
         len |-> h.len + 1]

RECURSIVE TallyEvents(_, _)
TallyEvents(h, events) ==
    IF events = <<>> THEN h ELSE TallyEvents(TallyEvent(h, Head(events)), Tail(events))

TallyClear(h) == [h EXCEPT !.cleared = TRUE, !.run.ok = FALSE, !.len = @ + 1]

Op(name, arg) == [op |-> name, arg |-> arg]

HLInit ==
    /\ LoadedTransport(SongTwoTracks)
    /\ highlightState = createHighlightState
    /\ highlightQueueRef = <<>>
    /\ last = Op("init", <<>>)
    /\ ops = 0
    /\ hist = NoTally

\* One applyHighlightEvents call with a one-event list, as the live-input
\* handler makes them; longer lists are built by the queue flush below.
HLApply ==
    \E e \in HLEvents :
        /\ hist.len < MaxLog
        /\ highlightState' = applyHighlightEvents(highlightState, <<e>>)
        /\ hist' = TallyEvents(hist, <<e>>)
        /\ last' = Op("apply", e)
        /\ UNCHANGED <<transportVars, highlightQueueRef, ops>>

HLClearForSource ==
    \E s \in SourceKeys :
        /\ hist.len < MaxLog
        /\ highlightState' = clearHighlightsForSource(highlightState, s)
        /\ hist' = TallyClear(hist)
        /\ last' = Op("clearForSource", s)
        /\ UNCHANGED <<transportVars, highlightQueueRef, ops>>

HLClearExceptInput ==
    /\ hist.len < MaxLog
    /\ highlightState' = clearHighlightsExceptInput(highlightState)
    /\ hist' = TallyClear(hist)
    /\ last' = Op("clearExceptInput", <<>>)
    /\ UNCHANGED <<transportVars, highlightQueueRef, ops>>

HLNext == HLApply \/ HLClearForSource \/ HLClearExceptInput

SpecHL == HLInit /\ [][HLNext]_vars

---------------------------------------------------------------------------
(* App.tsx: the highlight event queue. *)

\* String.localeCompare on the source keys in use: "0" < "1" < "input"
SourceRank(sourceKey) == CASE sourceKey = "0" -> 0 [] sourceKey = "1" -> 1 [] OTHER -> 2

localeCompare(a, b) == SourceRank(a) - SourceRank(b)

\* The comparator of due.sort with On sorted before Off on a tie.
compareDueOnFirst(a, b) ==
    IF a.timeMs # b.timeMs THEN (IF RLt(a.timeMs, b.timeMs) THEN -1 ELSE 1)
    ELSE IF a.type # b.type THEN (IF a.type = "on" THEN -1 ELSE 1)
    ELSE IF a.noteNumber # b.noteNumber THEN a.noteNumber - b.noteNumber
    ELSE localeCompare(a.sourceKey, b.sourceKey)

\* The comparator of due.sort: negative when a goes before b.
compareDue(a, b) ==
    IF a.timeMs # b.timeMs THEN (IF RLt(a.timeMs, b.timeMs) THEN -1 ELSE 1)
    ELSE IF a.type # b.type THEN (IF a.type = "off" THEN -1 ELSE 1)
    ELSE IF a.noteNumber # b.noteNumber THEN a.noteNumber - b.noteNumber
    ELSE localeCompare(a.sourceKey, b.sourceKey)

\* Array.prototype.sort is stable: e goes after everything not greater.
RECURSIVE insertDue(_, _)
insertDue(e, sorted) ==
    IF sorted = <<>> THEN <<e>>
    ELSE IF compareDue(e, Head(sorted)) < 0 THEN <<e>> \o sorted
    ELSE <<Head(sorted)>> \o insertDue(e, Tail(sorted))

RECURSIVE sortDue(_)
sortDue(due) ==
    IF due = <<>> THEN <<>> ELSE insertDue(due[Len(due)], sortDue(SubSeq(due, 1, Len(due) - 1)))

\* a partition that takes an event as due only once its time has passed
dueEventsBefore(queue, nowMs) == SelectSeq(queue, LAMBDA e : RLt(e.timeMs, nowMs))

dueEvents(queue, nowMs) == SelectSeq(queue, LAMBDA e : RLe(e.timeMs, nowMs))

\* a partition that keeps an event due at the flush instant for the next flush too
futureEventsFrom(queue, nowMs) == SelectSeq(queue, LAMBDA e : RLe(nowMs, e.timeMs))

futureEvents(queue, nowMs) == SelectSeq(queue, LAMBDA e : ~RLe(e.timeMs, nowMs))

\* flushHighlightQueue(nowMs): the queue and the highlight state it leaves.
flushHighlightQueue(queue, state, nowMs) ==
    IF queue = <<>> THEN [queue |-> queue, state |-> state]
    ELSE [queue |-> futureEvents(queue, nowMs),
          state |-> IF dueEvents(queue, nowMs) = <<>> THEN state
                    ELSE applyHighlightEvents(state, sortDue(dueEvents(queue, nowMs)))]

---------------------------------------------------------------------------
(* App.tsx: the scheduler. *)

LOOKAHEAD == 100

SCHEDULE_INTERVAL == 25

\* notes that started more than this long ago (s) are not dispatched
SkipEpsilon == R(1, 10)

\* ((now - startTimeRef.current) / 1000) * playbackRate
songTimeAt(nowMs, epochMs, rate) == RMul(RDiv(RSub(nowMs, epochMs), Thousand), rate)

\* now - time * 1000: the epoch of a transport that ignores the rate
epochForUnitRate(nowMs, time, rate) == RSub(nowMs, RMul(time, Thousand))

\* now - (time * 1000 / rate)
epochFor(nowMs, time, rate) == RSub(nowMs, RDiv(RMul(time, Thousand), rate))

\* events whose Off comes note.duration after the On whatever the rate
noteEventsUnscaledDuration(track, note, nowMs, songTime, rate) ==
    LET sourceKey == String(track.id)
        delayMs == RMax(Zero, RDiv(RMul(RSub(note.time, songTime), Thousand), rate))
        onTimeMs == RAdd(nowMs, delayMs)
    IN  << HighlightEvent("on", note.midi, sourceKey, onTimeMs),
           HighlightEvent("off", note.midi, sourceKey, RAdd(onTimeMs, RMul(note.duration, Thousand))) >>

\* The two events scheduleNotes pushes for a note.
noteEvents(track, note, nowMs, songTime, rate) ==
    LET sourceKey == String(track.id)
        delayMs == RMax(Zero, RDiv(RMul(RSub(note.time, songTime), Thousand), rate))
        durationMs == RDiv(RMul(note.duration, Thousand), rate)
        onTimeMs == RAdd(nowMs, delayMs)
        offTimeMs == RAdd(onTimeMs, durationMs)
    IN  << HighlightEvent("on", note.midi, sourceKey, onTimeMs),
           HighlightEvent("off", note.midi, sourceKey, offTimeMs) >>

\* A call of webMidiService.sendNoteOn / sendNoteOff / panic, as the sink sees it.
SinkCall(kind, sourceKey, noteNumber, timestamp) ==
    [kind |-> kind, sourceKey |-> sourceKey, note |-> noteNumber, timestamp |-> timestamp, threw |-> FALSE]

\* panic: output.send without a timestamp, which sends at once, at nowMs
PanicCall(nowMs) == SinkCall("panic", "", NullNote, nowMs)

\* What the output has sent by nowMs of the calls made to it: output.send
\* sends a message at its timestamp, or at once if that has passed; nothing
\* takes a message back (no call of output.clear), and a call that threw
\* sent nothing.
sinkDelivered(calls, nowMs) == SelectSeq(calls, LAMBDA c : ~c.threw /\ RLe(c.timestamp, nowMs))

\* the sendNoteOn timestamp of a note: absoluteScheduleTime
dispatchOnMs(note, nowMs, songTime, rate, settings) ==
    LET timeUntilNote == RDiv(RSub(note.time, songTime), rate)
    IN  RAdd(RAdd(nowMs, RMul(timeUntilNote, Thousand)), FromInt(settings.latencyCompensation))

\* the sendNoteOff timestamp of a note: offTime
dispatchOffMs(note, nowMs, songTime, rate, settings) ==
    LET durationScaled == RDiv(note.duration, rate)
    IN  RAdd(dispatchOnMs(note, nowMs, songTime, rate, settings), RMul(durationScaled, Thousand))

\* sink calls for every track of a selected device, muted or not
noteSinkCallsIgnoringMute(track, note, nowMs, songTime, rate, settings) ==
    IF settings.deviceId # NoDevice
    THEN << SinkCall("noteOn", String(track.id), note.midi, dispatchOnMs(note, nowMs, songTime, rate, settings)),
            SinkCall("noteOff", String(track.id), note.midi, dispatchOffMs(note, nowMs, songTime, rate, settings)) >>
    ELSE << >>

\* The sink calls scheduleNotes makes for a note.
noteSinkCalls(track, note, nowMs, songTime, rate, settings) ==
    IF ~track.isMuted /\ settings.deviceId # NoDevice
    THEN << SinkCall("noteOn", String(track.id), note.midi, dispatchOnMs(note, nowMs, songTime, rate, settings)),
            SinkCall("noteOff", String(track.id), note.midi, dispatchOffMs(note, nowMs, songTime, rate, settings)) >>
    ELSE << >>

\* What one run of scheduleNotes works with: env.throwAt is the number of the
\* sink call of this run in which output.send throws (0: none does).
SchedulerEnv(nowMs, songTime, rate, settings, throwAt) ==
    [nowMs |-> nowMs, songTime |-> songTime, rate |-> rate, settings |-> settings, throwAt |-> throwAt]

\* One note that is dispatched: the sink calls first, then the two queue
\* pushes; a throwing sink call ends the run before anything later happens.
dispatchNote(track, note, acc, env) ==
    LET calls == noteSinkCalls(track, note, env.nowMs, env.songTime, env.rate, env.settings)
        made == Len(acc.calls)
        throwsHere == env.throwAt > made /\ env.throwAt <= made + Len(calls)
    IN  IF throwsHere
        THEN [acc EXCEPT !.calls = acc.calls \o SubSeq(calls, 1, env.throwAt - made - 1)
                                           \o << [calls[env.throwAt - made] EXCEPT !.threw = TRUE] >>,
                         !.threw = TRUE]
        ELSE [acc EXCEPT !.calls = acc.calls \o calls,
                         !.queue = acc.queue \o noteEvents(track, note, env.nowMs, env.songTime, env.rate)]

\* The while loop of scheduleNotes over one track: the cursor, the queue and
\* the sink calls it leaves.
RECURSIVE scheduleTrack(_, _, _, _)
scheduleTrack(track, nextIndex, acc, env) ==
    LET lookAheadTime == RAdd(env.songTime, RMul(RDiv(FromInt(LOOKAHEAD), Thousand), env.rate))
        note == track.notes[nextIndex + 1]
    IN  IF nextIndex >= Len(track.notes) THEN [nextIndex |-> nextIndex, acc |-> acc]
        ELSE IF RLt(lookAheadTime, note.time) THEN [nextIndex |-> nextIndex, acc |-> acc]
        ELSE IF RLt(RAdd(note.time, note.duration), env.songTime)
             THEN scheduleTrack(track, nextIndex + 1, acc, env)
        ELSE IF RLe(RSub(env.songTime, SkipEpsilon), note.time)
             THEN CHOOSE result \in
                      { IF dispatched.threw THEN [nextIndex |-> nextIndex, acc |-> dispatched]
                        ELSE scheduleTrack(track, nextIndex + 1, dispatched, env) :
                            dispatched \in {dispatchNote(track, note, acc, env)} } : TRUE
        ELSE scheduleTrack(track, nextIndex + 1, acc, env)

\* midiData.tracks.forEach: tracks from trackIdx on (1-based here).  The
\* cursor of a track is stored after its loop, so a run that a throw ends
\* leaves the cursor of the track it was in, and of the later ones, alone.
RECURSIVE scheduleTracks(_, _, _, _, _)
scheduleTracks(tracks, trackIdx, indexes, acc, env) ==
    IF trackIdx > Len(tracks) THEN [indexes |-> indexes, queue |-> acc.queue, calls |-> acc.calls, threw |-> acc.threw]
    ELSE IF tracks[trackIdx].isHidden
         THEN scheduleTracks(tracks, trackIdx + 1, indexes, acc, env)
    ELSE CHOOSE result \in
             { IF r.acc.threw
               THEN [indexes |-> indexes, queue |-> r.acc.queue, calls |-> r.acc.calls, threw |-> TRUE]
               ELSE scheduleTracks(tracks, trackIdx + 1, [indexes EXCEPT ![trackIdx] = r.nextIndex], r.acc, env) :
                   r \in {scheduleTrack(tracks[trackIdx], indexes[trackIdx], acc, env)} } : TRUE

\* scheduleNotes up to its last statement, the flush
scheduleNotes(tracks, indexes, queue, env) ==
    scheduleTracks(tracks, 1, indexes, [queue |-> queue, calls |-> <<>>, threw |-> FALSE], env)

\* a search for the first note that starts at or after the time
firstIndexStartingFrom(notes, time) ==
    LET hits == {i \in 1..Len(notes) : RLe(time, notes[i].time)}
    IN  IF hits = {} THEN Len(notes) ELSE (CHOOSE i \in hits : \A j \in hits : i <= j) - 1

\* findIndex(n => n.time + n.duration >= time), 0-based; -1 becomes length
firstIndexFrom(notes, time) ==
    LET hits == {i \in 1..Len(notes) : RLe(time, RAdd(notes[i].time, notes[i].duration))}
    IN  IF hits = {} THEN Len(notes) ELSE (CHOOSE i \in hits : \A j \in hits : i <= j) - 1

\* a search that starts at the current cursor and keeps the index in the rest
resetPointersFromCursor(song, time) ==
    [t \in 1..Len(song.tracks) |->
        firstIndexFrom(SubSeq(song.tracks[t].notes, nextNoteIndexRefs[t] + 1, Len(song.tracks[t].notes)), time)]

resetPointers(song, time) == [t \in 1..Len(song.tracks) |-> firstIndexFrom(song.tracks[t].notes, time)]

zeroPointers(song) == [t \in 1..Len(song.tracks) |-> 0]

NowMs == FromInt(now)

\* the transport's song time at this instant
SongTime == IF isPlaying THEN songTimeAt(NowMs, startTimeRef, playbackRate) ELSE pauseTimeRef

---------------------------------------------------------------------------
(* App.tsx: timers and the render loop. *)

\* delay of the deferred resume of performUndo / performRedo, ms
ResumeDelay == 10

\* history entries pushToHistory keeps before appending: prev.slice(-19)
HistoryKeep == 19

SetMin(S) == CHOOSE x \in S : \A y \in S : x <= y

Snapshot(playing, time, rate) == [isPlaying |-> playing, currentTime |-> time, playbackRate |-> rate]

LastN(seq, n) == IF Len(seq) <= n THEN seq ELSE SubSeq(seq, Len(seq) - n + 1, Len(seq))

\* pauseTimeRef.current || currentTime, with the currentTime of the closure
historyTime(uiTime) == IF pauseTimeRef # Zero THEN pauseTimeRef ELSE uiTime

\* a push that keeps every entry
pushToHistoryUncapped(prev, currentState) == Append(prev, currentState)

\* setHistory(prev => [...prev.slice(-19), currentState])
pushToHistory(prev, currentState) == Append(LastN(prev, HistoryKeep), currentState)

ListenerEnv(rate, time) == [playbackRate |-> rate, currentTime |-> time]

\* clearHighlightsByPredicate returns a new object unless the map is empty
clearMakesNewState(state) == DOMAIN state.countsByActiveKey # {}

\* Wall-clock time passes up to the next timer, at most one scheduler
\* interval; a timer that is due fires before time moves on.
AdvanceWithin(horizon) ==
    /\ now < horizon
    /\ isPlaying => now < nextTickAt
    /\ \A t \in resumeTimers : now < t.at
    /\ now' = SetMin({now + SCHEDULE_INTERVAL} \cup {t.at : t \in resumeTimers} \cup (IF isPlaying THEN {nextTickAt} ELSE {}))
    /\ UNCHANGED <<pendingParse, last, nextTickAt, resumeTimers, midiData, isPlaying, currentTime, playbackRate, history, future, startTimeRef, pauseTimeRef, nextNoteIndexRefs, midiListenerEnv, highlightState, highlightQueueRef, ops, hist, inputs, outputSettings, sinkCalls>>

Advance == AdvanceWithin(MaxTicks * SCHEDULE_INTERVAL)

\* the sink calls of a run in which output.send may throw
ThrowPoints ==
    IF outputSettings.deviceId = NoDevice \/ Cardinality({i \in DOMAIN sinkCalls : sinkCalls[i].threw}) >= MaxThrows
    THEN {0}
    ELSE 0..MaxThrowAt

\* the sink after a handler that calls panic when cond holds and a device is selected
panicIf(cond) == IF cond /\ outputSettings.deviceId # NoDevice THEN Append(sinkCalls, PanicCall(FromInt(now))) ELSE sinkCalls

\* scheduleNotes, the setInterval callback.  A throw of the sink ends the
\* callback where it is: the flush is not reached.
Tick ==
    /\ isPlaying
    /\ now = nextTickAt
    /\ \E throwAt \in ThrowPoints :
        \E songTime \in {songTimeAt(NowMs, startTimeRef, playbackRate)} :
        \E scheduled \in {scheduleNotes(midiData.tracks, nextNoteIndexRefs, highlightQueueRef,
                                        SchedulerEnv(NowMs, songTime, playbackRate, outputSettings, throwAt))} :
        LET flushed == IF scheduled.threw
                       THEN [queue |-> scheduled.queue, state |-> highlightState]
                       ELSE flushHighlightQueue(scheduled.queue, highlightState, NowMs)
            due == IF scheduled.threw THEN <<>> ELSE dueEvents(scheduled.queue, NowMs)
        IN  /\ nextNoteIndexRefs' = scheduled.indexes
            /\ highlightQueueRef' = flushed.queue
            /\ highlightState' = flushed.state
            /\ sinkCalls' = sinkCalls \o scheduled.calls
            /\ midiListenerEnv' = IF due # <<>> THEN ListenerEnv(playbackRate, currentTime) ELSE midiListenerEnv
            /\ last' = Op("tick", [due |-> sortDue(due), songTime |-> songTime,
                                   pushed |-> SubSeq(scheduled.queue, Len(highlightQueueRef) + 1, Len(scheduled.queue)),
                                   calls |-> scheduled.calls, threw |-> scheduled.threw])
    /\ nextTickAt' = now + SCHEDULE_INTERVAL
    /\ UNCHANGED <<pendingParse, now, resumeTimers, midiData, isPlaying, currentTime, playbackRate, history, future, startTimeRef, pauseTimeRef, ops, hist, inputs, outputSettings>>

\* The requestAnimationFrame loop before the end of the song.
Frame ==
    /\ isPlaying
    /\ RLt(songTimeAt(NowMs, startTimeRef, playbackRate), midiData.duration)
    /\ currentTime' = songTimeAt(NowMs, startTimeRef, playbackRate)
    /\ UNCHANGED <<pendingParse, last, now, nextTickAt, resumeTimers, midiData, isPlaying, playbackRate, history, future, startTimeRef, pauseTimeRef, nextNoteIndexRefs, midiListenerEnv, highlightState, highlightQueueRef, ops, hist, inputs, outputSettings, sinkCalls>>

\* The body of handleStop after the optional pushToHistory.
StopBody ==
    /\ isPlaying' = FALSE
    /\ pauseTimeRef' = Zero
    /\ currentTime' = Zero
    /\ highlightQueueRef' = <<>>
    /\ sinkCalls' = panicIf(TRUE)
    /\ highlightState' = clearHighlightsExceptInput(highlightState)
    /\ nextNoteIndexRefs' = zeroPointers(midiData)
    /\ midiListenerEnv' = IF isPlaying \/ clearMakesNewState(highlightState) THEN ListenerEnv(playbackRate, Zero) ELSE midiListenerEnv

\* The requestAnimationFrame loop at the end of the song: handleStop(false).
AutoStop ==
    /\ isPlaying
    /\ RLe(midiData.duration, songTimeAt(NowMs, startTimeRef, playbackRate))
    /\ StopBody
    /\ last' = Op("autoStop", <<>>)
    /\ UNCHANGED <<pendingParse, now, nextTickAt, resumeTimers, midiData, playbackRate, history, future, startTimeRef, ops, hist, inputs, outputSettings>>

\* The setTimeout callback of performUndo / performRedo.
ResumeTimerFire ==
    \E t \in resumeTimers :
        /\ t.at = now
        /\ startTimeRef' = epochFor(NowMs, t.currentTime, t.playbackRate)
        /\ isPlaying' = TRUE
        /\ nextTickAt' = IF isPlaying THEN nextTickAt ELSE now + SCHEDULE_INTERVAL
        /\ resumeTimers' = resumeTimers \ {t}
        /\ midiListenerEnv' = IF isPlaying THEN midiListenerEnv ELSE ListenerEnv(playbackRate, currentTime)
        /\ last' = Op("resume", <<>>)
        /\ UNCHANGED <<pendingParse, now, midiData, currentTime, playbackRate, history, future, pauseTimeRef, nextNoteIndexRefs, highlightState, highlightQueueRef, ops, hist, inputs, outputSettings, sinkCalls>>

---------------------------------------------------------------------------
(* App.tsx: the transport handlers. *)

\* handlePlayPause while not playing
PlayBody(rate, uiTime) ==
    /\ ~isPlaying
    /\ history' = pushToHistory(history, Snapshot(isPlaying, historyTime(uiTime), rate))
    /\ future' = <<>>
    /\ startTimeRef' = epochFor(NowMs, pauseTimeRef, rate)
    /\ isPlaying' = TRUE
    /\ nextTickAt' = now + SCHEDULE_INTERVAL
    /\ midiListenerEnv' = ListenerEnv(playbackRate, currentTime)
    /\ ops' = ops + 1
    /\ UNCHANGED <<pendingParse, now, resumeTimers, midiData, currentTime, playbackRate, pauseTimeRef, nextNoteIndexRefs, highlightState, highlightQueueRef, hist, inputs, outputSettings, sinkCalls>>

\* the play button
Play ==
    /\ ops < MaxOps
    /\ PlayBody(playbackRate, currentTime)
    /\ last' = Op("play", "ui")

\* MIDI Start / Continue (0xFA, 0xFB): the listener calls the handlePlayPause
\* of the render in which the listener was installed.
MidiStart ==
    /\ ops < MaxOps
    /\ PlayBody(midiListenerEnv.playbackRate, midiListenerEnv.currentTime)
    /\ last' = Op("play", "midi")

\* handlePlayPause while playing
Pause ==
    /\ ops < MaxOps
    /\ isPlaying
    /\ history' = pushToHistory(history, Snapshot(isPlaying, historyTime(currentTime), playbackRate))
    /\ future' = <<>>
    /\ isPlaying' = FALSE
    /\ sinkCalls' = panicIf(TRUE)
    /\ pauseTimeRef' = songTimeAt(NowMs, startTimeRef, playbackRate)
    /\ highlightQueueRef' = <<>>
    /\ highlightState' = clearHighlightsExceptInput(highlightState)
    /\ midiListenerEnv' = ListenerEnv(playbackRate, currentTime)
    /\ last' = Op("pause", pauseTimeRef')
    /\ ops' = ops + 1
    /\ UNCHANGED <<pendingParse, now, nextTickAt, resumeTimers, midiData, currentTime, playbackRate, startTimeRef, nextNoteIndexRefs, hist, inputs, outputSettings>>

\* handleStop() by the stop button
Stop ==
    /\ ops < MaxOps
    /\ history' = pushToHistory(history, Snapshot(isPlaying, historyTime(currentTime), playbackRate))
    /\ future' = <<>>
    /\ StopBody
    /\ last' = Op("stop", "ui")
    /\ ops' = ops + 1
    /\ UNCHANGED <<pendingParse, now, nextTickAt, resumeTimers, midiData, playbackRate, startTimeRef, hist, inputs, outputSettings>>

\* MIDI Stop (0xFC): handleStop() of the listener's render
MidiStop ==
    /\ ops < MaxOps
    /\ history' = pushToHistory(history, Snapshot(isPlaying, historyTime(midiListenerEnv.currentTime), midiListenerEnv.playbackRate))
    /\ future' = <<>>
    /\ StopBody
    /\ last' = Op("stop", "midi")
    /\ ops' = ops + 1
    /\ UNCHANGED <<pendingParse, now, nextTickAt, resumeTimers, midiData, playbackRate, startTimeRef, hist, inputs, outputSettings>>

\* Seek targets the controls can produce: within [0, duration].
SeekTargets == {Zero, R(9, 125)}

\* handleSeek(time)
SeekBody(time) ==
        /\ ops < MaxOps
        /\ history' = pushToHistory(history, Snapshot(isPlaying, historyTime(currentTime), playbackRate))
        /\ future' = <<>>
        /\ pauseTimeRef' = time
        /\ currentTime' = time
        /\ highlightQueueRef' = <<>>
        /\ sinkCalls' = panicIf(isPlaying)
        /\ highlightState' = clearHighlightsExceptInput(highlightState)
        /\ nextNoteIndexRefs' = resetPointers(midiData, time)
        /\ startTimeRef' = IF isPlaying THEN epochFor(NowMs, time, playbackRate) ELSE startTimeRef
        /\ midiListenerEnv' = IF clearMakesNewState(highlightState) THEN ListenerEnv(playbackRate, time) ELSE midiListenerEnv
        /\ last' = Op("seek", [time |-> time, again |-> last.op = "seek" /\ last.arg.time = time, at |-> now,
                               before |-> [time |-> SongTime, shown |-> currentTime, rate |-> playbackRate, playing |-> isPlaying]])
        /\ ops' = ops + 1
        /\ UNCHANGED <<pendingParse, now, nextTickAt, resumeTimers, midiData, isPlaying, playbackRate, hist, inputs, outputSettings>>

\* a seek from the playback controls of a loaded song
Seek == \E time \in SeekTargets : SeekBody(time)

\* no song time
NoTime == <<-1, 1>>

\* history: the song time of the last pause while only the rate has changed since
PausedAt ==
    IF last.op = "pause" THEN last.arg
    ELSE IF last.op = "rate" THEN last.arg.pausedAt
    ELSE NoTime

\* Rates the rate selector offers (a selection of them).
Rates == {FromInt(1), FromInt(2)}

\* handleRateChange(rate)
RateBody(rate) ==
        /\ ops < MaxOps
        /\ history' = pushToHistory(history, Snapshot(isPlaying, historyTime(currentTime), playbackRate))
        /\ future' = <<>>
        /\ startTimeRef' = IF isPlaying
                           THEN epochFor(NowMs, songTimeAt(NowMs, startTimeRef, playbackRate), rate)
                           ELSE startTimeRef
        /\ playbackRate' = rate
        /\ nextTickAt' = IF isPlaying THEN now + SCHEDULE_INTERVAL ELSE nextTickAt
        /\ last' = Op("rate", [rate |-> rate, pausedAt |-> PausedAt])
        /\ ops' = ops + 1
        /\ UNCHANGED <<pendingParse, now, resumeTimers, midiData, isPlaying, currentTime, pauseTimeRef, nextNoteIndexRefs, midiListenerEnv, highlightState, highlightQueueRef, hist, inputs, outputSettings, sinkCalls>>

\* the rate selector, which reports a rate only when it changes
RateChange == \E rate \in Rates \ {playbackRate} : RateBody(rate)

\* What performUndo / performRedo do with the snapshot they restore.
RestoreBody(target) ==
    /\ playbackRate' = target.playbackRate
    /\ isPlaying' = FALSE
    /\ sinkCalls' = panicIf(isPlaying)
    /\ highlightQueueRef' = IF isPlaying THEN <<>> ELSE highlightQueueRef
    /\ highlightState' = IF isPlaying THEN clearHighlightsExceptInput(highlightState) ELSE highlightState
    /\ pauseTimeRef' = target.currentTime
    /\ currentTime' = target.currentTime
    /\ nextNoteIndexRefs' = resetPointers(midiData, target.currentTime)
    /\ resumeTimers' = IF target.isPlaying
                       THEN resumeTimers \cup {[at |-> now + ResumeDelay, currentTime |-> target.currentTime, playbackRate |-> target.playbackRate]}
                       ELSE resumeTimers
    /\ midiListenerEnv' = IF isPlaying THEN ListenerEnv(target.playbackRate, target.currentTime) ELSE midiListenerEnv
    /\ ops' = ops + 1
    /\ UNCHANGED <<pendingParse, now, nextTickAt, midiData, startTimeRef, hist, inputs, outputSettings>>

performUndo ==
    /\ ops < MaxOps
    /\ history # <<>>
    /\ future' = <<Snapshot(isPlaying, currentTime, playbackRate)>> \o future
    /\ history' = SubSeq(history, 1, Len(history) - 1)
    /\ RestoreBody(history[Len(history)])
    /\ last' = Op("undo", <<>>)

performRedo ==
    /\ ops < MaxOps
    /\ future # <<>>
    /\ history' = Append(history, Snapshot(isPlaying, currentTime, playbackRate))
    /\ future' = Tail(future)
    /\ RestoreBody(future[1])
    /\ last' = Op("redo", <<>>)

\* a filter that keeps the events of the source instead of dropping them
onlySource(queue, sourceKey) == SelectSeq(queue, LAMBDA e : e.sourceKey = sourceKey)

\* highlightQueueRef.current.filter(event => event.sourceKey !== sourceKey)
withoutSource(queue, sourceKey) == SelectSeq(queue, LAMBDA e : e.sourceKey # sourceKey)

\* toggleTrackHide(id)
toggleTrackHide ==
    \E t \in DOMAIN midiData.tracks :
        LET track == midiData.tracks[t]
            sourceKey == String(track.id)
            hides == ~track.isHidden
        IN  /\ ops < MaxOps
            /\ midiData' = [midiData EXCEPT !.tracks[t].isHidden = hides]
            /\ highlightQueueRef' = IF hides THEN withoutSource(highlightQueueRef, sourceKey) ELSE highlightQueueRef
            /\ highlightState' = IF hides THEN clearHighlightsForSource(highlightState, sourceKey) ELSE highlightState
            /\ midiListenerEnv' = IF hides /\ clearMakesNewState(highlightState) THEN ListenerEnv(playbackRate, currentTime) ELSE midiListenerEnv
            /\ sinkCalls' = panicIf(hides /\ isPlaying)
            /\ nextTickAt' = IF isPlaying THEN now + SCHEDULE_INTERVAL ELSE nextTickAt
            /\ last' = [op |-> IF hides THEN "hideTrack" ELSE "showTrack", arg |-> sourceKey,
                         dropped |-> Len(highlightQueueRef) - Len(highlightQueueRef')]
            /\ ops' = ops + 1
            /\ UNCHANGED <<pendingParse, now, resumeTimers, isPlaying, currentTime, playbackRate, history, future, startTimeRef, pauseTimeRef, nextNoteIndexRefs, hist, inputs, outputSettings>>

\* Note numbers the attached input device sends.
InputNoteNumbers == {60}

\* Live MIDI input: a note-on or note-off message for a note number.
InputNote ==
    \E type \in EventTypes, noteNumber \in InputNoteNumbers :
        /\ inputs < MaxInputs
        /\ highlightState' = applyHighlightEvents(highlightState, <<HighlightEvent(type, noteNumber, "input", NowMs)>>)
        /\ midiListenerEnv' = ListenerEnv(playbackRate, currentTime)
        /\ last' = Op("input", HighlightEvent(type, noteNumber, "input", NowMs))
        /\ inputs' = inputs + 1
        /\ sinkCalls' = IF outputSettings.deviceId # NoDevice
                        THEN Append(sinkCalls, SinkCall(IF type = "on" THEN "noteOn" ELSE "noteOff", "input", noteNumber, NowMs))
                        ELSE sinkCalls
        /\ UNCHANGED <<pendingParse, now, nextTickAt, resumeTimers, midiData, isPlaying, currentTime, playbackRate, history, future, startTimeRef, pauseTimeRef, nextNoteIndexRefs, highlightQueueRef, ops, hist, outputSettings>>

\* The transport right after handlePlayPause started a freshly loaded song.
StartedTransport(song) ==
    /\ now = 0
    /\ nextTickAt = SCHEDULE_INTERVAL
    /\ resumeTimers = {}
    /\ midiData = song
    /\ isPlaying = TRUE
    /\ currentTime = Zero
    /\ playbackRate = FromInt(1)
    /\ history = <<Snapshot(FALSE, Zero, FromInt(1))>>
    /\ future = <<>>
    /\ startTimeRef = Zero
    /\ pauseTimeRef = Zero
    /\ nextNoteIndexRefs = zeroPointers(song)
    /\ midiListenerEnv = ListenerEnv(FromInt(1), Zero)
    /\ inputs = 0
    /\ pendingParse = {}

\* A song has been loaded; it is stopped at 0 or has just been started.
Init ==
    /\ \/ LoadedTransport(SongTwoTracks) /\ last = Op("init", <<>>)
       \/ StartedTransport(SongTwoTracks) /\ last = Op("play", "ui")
    /\ outputSettings = DefaultSettings
    /\ sinkCalls = <<>>
    /\ highlightState = createHighlightState
    /\ highlightQueueRef = <<>>
    /\ ops = 0
    /\ hist = NoTally

Next ==
    \/ Advance
    \/ Tick
    \/ Frame
    \/ AutoStop
    \/ ResumeTimerFire
    \/ Play
    \/ MidiStart
    \/ Pause
    \/ Stop
    \/ MidiStop
    \/ Seek
    \/ RateChange
    \/ performUndo
    \/ performRedo
    \/ toggleTrackHide
    \/ InputNote

Spec == Init /\ [][Next]_vars

---------------------------------------------------------------------------
(* Uninterrupted playback: a song is loaded, a rate chosen, play pressed
   once, and then only the timers run. *)

OneTrack(notes) == << Track(0, notes) >>

\* Single notes (early, in the look-ahead, of zero length) and a retrigger.
PlaySongs ==
    { [duration |-> R(1, 20), tracks |-> OneTrack(<< Note(60, Zero, R(1, 20)) >>)],
      [duration |-> R(1, 20), tracks |-> OneTrack(<< Note(60, R(3, 100), R(1, 50)) >>)],
      [duration |-> R(1, 20), tracks |-> OneTrack(<< Note(60, R(3, 100), Zero) >>)],
      [duration |-> R(3, 40), tracks |-> OneTrack(<< Note(60, R(1, 40), R(1, 40)), Note(60, R(1, 20), R(1, 40)) >>)] }

PlayRates == {R(1, 2), FromInt(1), FromInt(2)}

\* A loaded song whose rate has been chosen with handleRateChange.
PlayInit ==
    \E song \in PlaySongs, rate \in PlayRates :
        /\ now = 0
        /\ nextTickAt = 0
        /\ resumeTimers = {}
        /\ midiData = song
        /\ isPlaying = FALSE
        /\ currentTime = Zero
        /\ playbackRate = rate
        /\ history = IF rate = FromInt(1) THEN <<>> ELSE <<Snapshot(FALSE, Zero, FromInt(1))>>
        /\ future = <<>>
        /\ startTimeRef = Zero
        /\ pauseTimeRef = Zero
        /\ nextNoteIndexRefs = zeroPointers(song)
        /\ midiListenerEnv = ListenerEnv(FromInt(1), Zero)
        /\ inputs = 0
        /\ outputSettings = DefaultSettings
        /\ sinkCalls = <<>>
        /\ pendingParse = {}
        /\ highlightState = createHighlightState
        /\ highlightQueueRef = <<>>
        /\ last = Op("init", <<>>)
        /\ ops = 0
        /\ hist = NoTally

PlayOnce == ops = 0 /\ Play

PlayAdvance == AdvanceWithin(MaxPlayTicks * SCHEDULE_INTERVAL)

PlayNext == PlayOnce \/ PlayAdvance \/ Tick \/ Frame \/ AutoStop

SpecPlay == PlayInit /\ [][PlayNext]_vars

---------------------------------------------------------------------------
(* Uninterrupted playback of repeated notes of one pitch. *)

\* the two staccato notes of loadRepeatedNoteTestPattern on their own
SongStaccato ==
    [duration |-> R(1, 5),
     tracks |-> OneTrack(<< Note(60, R(1, 10), R(1, 50)), Note(60, R(4, 25), R(1, 50)) >>)]

\* loadRepeatedNoteTestPattern: the staccato pair and the overlapping pair,
\* sorted by start time, then duration
SongRepeatedNoteTest ==
    [duration |-> FromInt(1),
     tracks |-> OneTrack(<< Note(60, R(1, 10), R(1, 50)), Note(60, R(1, 10), R(2, 25)),
                            Note(60, R(7, 50), R(2, 25)), Note(60, R(4, 25), R(1, 50)) >>)]

RepeatSongs == {SongStaccato, SongRepeatedNoteTest}

\* A loaded pattern whose rate has been chosen with handleRateChange.
RepeatInit ==
    \E song \in RepeatSongs, rate \in PlayRates :
        /\ now = 0
        /\ nextTickAt = 0
        /\ resumeTimers = {}
        /\ midiData = song
        /\ isPlaying = FALSE
        /\ currentTime = Zero
        /\ playbackRate = rate
        /\ history = IF rate = FromInt(1) THEN <<>> ELSE <<Snapshot(FALSE, Zero, FromInt(1))>>
        /\ future = <<>>
        /\ startTimeRef = Zero
        /\ pauseTimeRef = Zero
        /\ nextNoteIndexRefs = zeroPointers(song)
        /\ midiListenerEnv = ListenerEnv(FromInt(1), Zero)
        /\ inputs = 0
        /\ outputSettings = DefaultSettings
        /\ sinkCalls = <<>>
        /\ pendingParse = {}
        /\ highlightState = createHighlightState
        /\ highlightQueueRef = <<>>
        /\ last = Op("init", <<>>)
        /\ ops = 0
        /\ hist = NoTally

RepeatAdvance == AdvanceWithin(MaxRepeatTicks * SCHEDULE_INTERVAL)

RepeatNext == PlayOnce \/ RepeatAdvance \/ Tick \/ Frame \/ AutoStop

SpecRepeat == RepeatInit /\ [][RepeatNext]_vars

---------------------------------------------------------------------------
(* Playback into an output device: hidden and muted tracks, latency
   compensation, notes a loader would not deliver, a sink that throws. *)

\* toggleTrackMute(id)
toggleTrackMute ==
    \E t \in DOMAIN midiData.tracks :
        LET track == midiData.tracks[t]
        IN  /\ ops < MaxOps
            /\ sinkCalls' = panicIf(isPlaying)
            /\ midiData' = [midiData EXCEPT !.tracks[t].isMuted = ~track.isMuted]
            /\ nextTickAt' = IF isPlaying THEN now + SCHEDULE_INTERVAL ELSE nextTickAt
            /\ last' = Op(IF track.isMuted THEN "unmuteTrack" ELSE "muteTrack", String(track.id))
            /\ ops' = ops + 1
            /\ UNCHANGED <<pendingParse, now, resumeTimers, isPlaying, currentTime, playbackRate, history, future, startTimeRef, pauseTimeRef, nextNoteIndexRefs, midiListenerEnv, highlightState, highlightQueueRef, hist, inputs, outputSettings>>

\* the output device of the session
Devices == {NoDevice, "out"}

\* values of the latency slider (ms)
LatencyValues == {0, 20}

\* onUpdateSettings: the device selector and the latency slider
updateSettings ==
    \E deviceId \in Devices, latency \in LatencyValues :
        /\ ops < MaxOps
        /\ [deviceId |-> deviceId, latencyCompensation |-> latency] # outputSettings
        /\ outputSettings' = [deviceId |-> deviceId, latencyCompensation |-> latency]
        /\ midiListenerEnv' = ListenerEnv(playbackRate, currentTime)
        /\ nextTickAt' = IF isPlaying THEN now + SCHEDULE_INTERVAL ELSE nextTickAt
        /\ last' = Op("settings", outputSettings')
        /\ ops' = ops + 1
        /\ UNCHANGED <<pendingParse, now, resumeTimers, midiData, isPlaying, currentTime, playbackRate, history, future, startTimeRef, pauseTimeRef, nextNoteIndexRefs, highlightState, highlightQueueRef, hist, inputs, sinkCalls>>

\* A song whose first note starts at 0, so that it is already sounding at
\* the first scheduler run, 25 ms after play.
SongFromStart ==
    [duration |-> R(1, 10),
     tracks |-> << Track(0, << Note(60, Zero, R(1, 20)), Note(60, R(2, 25), R(1, 50)) >>),
                   Track(1, << Note(61, R(1, 20), R(1, 50)) >>) >>]

\* A song with notes a MIDI file cannot hold: track 0 has a note of negative
\* duration, then a note beyond the first look-ahead window; track 1 has a
\* pitch above 127.
SongMalformed ==
    [duration |-> R(3, 20),
     tracks |-> << Track(0, << Note(61, R(1, 25), R(0 - 1, 100)), Note(60, R(7, 50), R(1, 100)) >>),
                   Track(1, << Note(128, R(1, 20), R(1, 50)) >>) >>]

SinkSongs == {SongFromStart, SongMalformed}

\* the song with its tracks hidden and muted as the track list was left
WithFlags(song, hidden, muted) ==
    [song EXCEPT !.tracks = [t \in DOMAIN song.tracks |-> [song.tracks[t] EXCEPT !.isHidden = hidden[t], !.isMuted = muted[t]]]]

\* A song has just been started, tracks hidden or muted and the output
\* set up beforehand.
SinkInit ==
    \E song \in SinkSongs, t \in 1..2, isHidden \in BOOLEAN, isMuted \in BOOLEAN,
       deviceId \in Devices, latency \in LatencyValues :
        /\ StartedTransport(WithFlags(song, [i \in 1..2 |-> i = t /\ isHidden], [i \in 1..2 |-> i = t /\ isMuted]))
        /\ outputSettings = [deviceId |-> deviceId, latencyCompensation |-> latency]
        /\ sinkCalls = <<>>
        /\ highlightState = createHighlightState
        /\ highlightQueueRef = <<>>
        /\ last = Op("play", "ui")
        /\ ops = MaxOps - 1
        /\ hist = NoTally

\* Render frames before the end of the song only move the displayed time,
\* which the scheduler does not read; the frame at the end stops the song.
SinkNext == PlayAdvance \/ Tick \/ AutoStop \/ toggleTrackMute \/ toggleTrackHide \/ updateSettings

SpecSink == SinkInit /\ [][SinkNext]_vars

---------------------------------------------------------------------------
(* The playback controls (components/PlaybackControls.tsx) on a loaded
   file, which may hold no note at all. *)

\* What the loader makes of a file without notes: no track, duration 0.
SongNoNotes == [duration |-> Zero, tracks |-> << >>]

ControlSongs == {SongTwoTracks, SongNoNotes}

RMin(a, b) == IF RLe(a, b) THEN a ELSE b

\* the skip distance of the rewind and forward buttons (s)
SkipSeconds == 5

\* the rewind button: onSeek(Math.max(0, currentTime - 5))
SeekBackward == SeekBody(RMax(Zero, RSub(currentTime, FromInt(SkipSeconds))))

\* the forward button: onSeek(Math.min(duration, currentTime + 5))
SeekForward == SeekBody(RMin(midiData.duration, RAdd(currentTime, FromInt(SkipSeconds))))

\* positions of the scrubber (step 0.1) that are explored
SliderStops == {Zero, R(1, 10), FromInt(1)}

\* max={duration || 1}
sliderMax(duration) == IF duration = Zero THEN FromInt(1) ELSE duration

\* the scrubber: onSeek(parseFloat(e.target.value)), a stop within min..max
SeekSlider == \E time \in {v \in SliderStops : RLe(v, sliderMax(midiData.duration))} : SeekBody(time)

ControlsInit ==
    \E song \in ControlSongs :
        /\ LoadedTransport(song)
        /\ highlightState = createHighlightState
        /\ highlightQueueRef = <<>>
        /\ last = Op("init", <<>>)
        /\ ops = 0
        /\ hist = NoTally

ControlsNext ==
    \/ Advance
    \/ Tick
    \/ Frame
    \/ AutoStop
    \/ Play
    \/ Pause
    \/ Stop
    \/ SeekBackward
    \/ SeekForward
    \/ SeekSlider
    \/ RateChange

SpecControls == ControlsInit /\ [][ControlsNext]_vars

---------------------------------------------------------------------------
(* The transport handlers called with any number: handleRateChange takes a
   rate the selector does not offer. *)

\* rates handleRateChange is called with
RateArguments == {FromInt(0 - 1), FromInt(2)}

RateCall == \E rate \in RateArguments : RateBody(rate)

CallsNext ==
    \/ Advance
    \/ Tick
    \/ Frame
    \/ AutoStop
    \/ Play
    \/ Pause
    \/ RateCall

SpecCalls == Init /\ [][CallsNext]_vars

---------------------------------------------------------------------------
(* Uninterrupted playback from the start of a song, into a device or not,
   of notes of any length. *)

\* A song whose first note is over before the first scheduler run, 25 ms
\* after play.
SongEarlyShort ==
    [duration |-> R(1, 10),
     tracks |-> << Track(0, << Note(60, Zero, R(1, 50)), Note(60, R(2, 25), R(1, 50)) >>),
                   Track(1, << Note(61, R(1, 20), R(1, 100)) >>) >>]

DispatchSongs == {SongFromStart, SongEarlyShort}

\* A song has just been started, track 0 muted or not, a device selected or not.
DispatchInit ==
    \E song \in DispatchSongs, isMuted \in BOOLEAN, deviceId \in Devices :
        /\ StartedTransport(WithFlags(song, [i \in 1..2 |-> FALSE], [i \in 1..2 |-> i = 1 /\ isMuted]))
        /\ outputSettings = [deviceId |-> deviceId, latencyCompensation |-> 0]
        /\ sinkCalls = <<>>
        /\ highlightState = createHighlightState
        /\ highlightQueueRef = <<>>
        /\ last = Op("play", "ui")
        /\ ops = 0
        /\ hist = NoTally

DispatchNext == PlayAdvance \/ Tick \/ Frame \/ AutoStop

SpecDispatch == DispatchInit /\ [][DispatchNext]_vars

---------------------------------------------------------------------------
(* A long session: the undo stack is at or near its cap. *)

\* play / pause presses made at the start of the song before the session
\* that is explored (an even number: the song is paused at 0)
PressesBefore == {18, 20}

\* What n alternating presses of play and pause at song time 0 leave: play
\* pushes a snapshot taken while paused, pause one taken while playing.
PressedHistory(n) == [k \in 1..n |-> Snapshot(k % 2 = 0, Zero, FromInt(1))]

HistoryInit ==
    \E n \in PressesBefore :
        /\ now = 0
        /\ nextTickAt = SCHEDULE_INTERVAL
        /\ resumeTimers = {}
        /\ midiData = SongTwoTracks
        /\ isPlaying = FALSE
        /\ currentTime = Zero
        /\ playbackRate = FromInt(1)
        /\ history = LastN(PressedHistory(n), HistoryKeep + 1)
        /\ future = <<>>
        /\ startTimeRef = Zero
        /\ pauseTimeRef = Zero
        /\ nextNoteIndexRefs = zeroPointers(SongTwoTracks)
        /\ midiListenerEnv = ListenerEnv(FromInt(1), Zero)
        /\ inputs = 0
        /\ outputSettings = DefaultSettings
        /\ sinkCalls = <<>>
        /\ pendingParse = {}
        /\ highlightState = createHighlightState
        /\ highlightQueueRef = <<>>
        /\ last = Op("pause", Zero)
        /\ ops = 0
        /\ hist = NoTally

HistoryNext ==
    \/ Advance
    \/ Tick
    \/ AutoStop
    \/ ResumeTimerFire
    \/ Play
    \/ Pause
    \/ Stop
    \/ Seek
    \/ RateChange
    \/ performUndo
    \/ performRedo

SpecHistory == HistoryInit /\ [][HistoryNext]_vars

---------------------------------------------------------------------------
(* Stopping playback into an output device: pause, stop and seek after
   notes have been handed to the output with timestamps still to come. *)

\* A song has just been started with an output device selected.
CancelInit ==
    \E latency \in LatencyValues :
        /\ StartedTransport(SongFromStart)
        /\ outputSettings = [deviceId |-> "out", latencyCompensation |-> latency]
        /\ sinkCalls = <<>>
        /\ highlightState = createHighlightState
        /\ highlightQueueRef = <<>>
        /\ last = Op("play", "ui")
        /\ ops = MaxOps - 1
        /\ hist = NoTally

\* Render frames before the end of the song only move the displayed time,
\* which neither the scheduler nor the output reads.
CancelNext == PlayAdvance \/ Tick \/ AutoStop \/ Pause \/ Stop \/ Seek

SpecCancel == CancelInit /\ [][CancelNext]_vars

---------------------------------------------------------------------------
(* Loading another file over a loaded one: handleFileUpload awaits the
   parser, and the MIDI input, the keyboard shortcuts and the timers go on
   being served until the promise settles. *)

\* the songs the parser may deliver for the file that is uploaded
UploadSongs == {SongFromStart, [duration |-> R(1, 20), tracks |-> OneTrack(<< Note(60, Zero, R(1, 20)) >>)]}

\* handleFileUpload(file) up to the await: handleStop(false), both stacks
\* emptied, parseMidiFile started.  One upload is pending at a time.
FileUpload ==
    \E parsed \in UploadSongs :
        /\ ops < MaxOps
        /\ pendingParse = {}
        /\ StopBody
        /\ history' = <<>>
        /\ future' = <<>>
        /\ pendingParse' = {parsed}
        /\ last' = Op("upload", <<>>)
        /\ ops' = ops + 1
        /\ UNCHANGED <<now, nextTickAt, resumeTimers, midiData, playbackRate, startTimeRef, hist, inputs, outputSettings>>

\* handleFileUpload after the await, the promise fulfilled: the song is
\* installed, the cursors, the displayed time and the paused time are set
\* to 0.  The new midiData makes a new scheduleNotes, which restarts the
\* interval of a playing transport.
ParseResolved ==
    \E parsed \in pendingParse :
        /\ midiData' = parsed
        /\ nextNoteIndexRefs' = zeroPointers(parsed)
        /\ currentTime' = Zero
        /\ pauseTimeRef' = Zero
        /\ pendingParse' = {}
        /\ nextTickAt' = IF isPlaying THEN now + SCHEDULE_INTERVAL ELSE nextTickAt
        /\ last' = Op("loaded", <<>>)
        /\ UNCHANGED <<now, resumeTimers, isPlaying, playbackRate, history, future, startTimeRef, midiListenerEnv, inputs, outputSettings, sinkCalls, highlightState, highlightQueueRef, ops, hist>>

\* handleFileUpload after the await, the promise rejected: the catch block
\* reports the failure and nothing of the transport changes.
ParseRejected ==
    /\ pendingParse # {}
    /\ pendingParse' = {}
    /\ last' = Op("loadFailed", <<>>)
    /\ UNCHANGED <<now, nextTickAt, resumeTimers, midiData, isPlaying, currentTime, playbackRate, history, future, startTimeRef, pauseTimeRef, nextNoteIndexRefs, midiListenerEnv, inputs, outputSettings, sinkCalls, highlightState, highlightQueueRef, ops, hist>>

\* the scrubber, which the loading overlay covers while a parse is pending
SeekLoaded == pendingParse = {} /\ Seek

\* The loading overlay covers the playback controls; what is served while a
\* parse is pending are the timers, the MIDI transport messages and the
\* undo / redo shortcuts.
LoadNext ==
    \/ Advance
    \/ Tick
    \/ AutoStop
    \/ ResumeTimerFire
    \/ MidiStart
    \/ MidiStop
    \/ performUndo
    \/ performRedo
    \/ SeekLoaded
    \/ FileUpload
    \/ ParseResolved
    \/ ParseRejected

SpecLoad == Init /\ [][LoadNext]_vars

---------------------------------------------------------------------------
(* The highlight queue on its own: events pushed in any order, flushed at
   any instant. *)

\* the instants (ms) events are due at and flushes happen at
FlushTimes == {FromInt(10), FromInt(20)}

\* the events of two playback sources
QueueEvents ==
    {HighlightEvent(type, noteNumber, sourceKey, timeMs) :
        type \in EventTypes, noteNumber \in NoteNumbers, sourceKey \in {"0", "1"}, timeMs \in FlushTimes}

FlushInit ==
    /\ LoadedTransport(SongTwoTracks)
    /\ highlightState = createHighlightState
    /\ highlightQueueRef = <<>>
    /\ last = Op("init", <<>>)
    /\ ops = 0
    /\ hist = NoTally

\* highlightQueueRef.current.push(event)
QueuePush ==
    \E e \in QueueEvents :
        /\ ops < MaxPushes
        /\ highlightQueueRef' = Append(highlightQueueRef, e)
        /\ last' = Op("push", e)
        /\ ops' = ops + 1
        /\ UNCHANGED <<transportVars, highlightState, hist>>

\* flushHighlightQueue(nowMs)
Flush ==
    \E nowMs \in FlushTimes :
        LET flushed == flushHighlightQueue(highlightQueueRef, highlightState, nowMs)
        IN  /\ highlightQueueRef' = flushed.queue
            /\ highlightState' = flushed.state
            /\ last' = Op("flush", [nowMs |-> nowMs, before |-> highlightQueueRef])
            /\ UNCHANGED <<transportVars, ops, hist>>

FlushNext == QueuePush \/ Flush

SpecFlush == FlushInit /\ [][FlushNext]_vars

---------------------------------------------------------------------------
(* Properties. *)

RECURSIVE SumOver(_, _)
SumOver(m, keys) ==
    IF keys = {} THEN 0
    ELSE LET k == CHOOSE x \in keys : TRUE IN m[k] + SumOver(m, keys \ {k})

\* the sum of a map's values
MapSum(m) == SumOver(m, DOMAIN m)

KeysOfNote(state, p) == {k \in DOMAIN state.countsByActiveKey : KeyNote(k) = p}

SumCountsOfNote(state, p) == SumOver(state.countsByActiveKey, KeysOfNote(state, p))

\* C1: for every pitch p, totalsByNote[p] equals the sum over sources of
\* sourcesByNote[p][s], which equals the sum over sources of
\* countsByActiveKey[s:p], and the three are zero/empty together.
C1_CountsAgree ==
    \A p \in NoteNumbers :
        /\ highlightState.totalsByNote[p] = MapSum(highlightState.sourcesByNote[p])
        /\ MapSum(highlightState.sourcesByNote[p]) = SumCountsOfNote(highlightState, p)
        /\ (highlightState.totalsByNote[p] = 0) <=> (highlightState.sourcesByNote[p] = EmptyMap)
        /\ (highlightState.totalsByNote[p] = 0) <=> (KeysOfNote(highlightState, p) = {})

\* C3: after n Ons of one (source, pitch) pair followed by m <= n Offs of it,
\* from the empty state, countsByActiveKey[s:p] and totalsByNote[p] both
\* equal n - m, and the pair is in the active set exactly while n - m > 0.
C3_OverlapIndependence ==
    (hist.run.ok /\ hist.run.key # NoKey) =>
        LET key == hist.run.key
            k == hist.run.n - hist.run.m
        IN  /\ MapGetOr(highlightState.countsByActiveKey, key, 0) = k
            /\ highlightState.totalsByNote[KeyNote(key)] = k
            /\ (key \in buildActiveNotesSet(highlightState)) <=> (k > 0)

\* two Ons and one Off of one pair have been applied
C3_Witness ==
    /\ hist.run.ok
    /\ hist.run.n = 2
    /\ hist.run.m = 1
    /\ hist.run.key \in buildActiveNotesSet(highlightState)

\* C4 as stated: for every sequence of On/Off events applied from the empty
\* state and every pitch p, totalsByNote[p] = max(0, #On(p) - #Off(p)).
C4_NetClampedAtEnd ==
    ~hist.cleared =>
        \A p \in NoteNumbers : highlightState.totalsByNote[p] = Max(0, hist.ons[p] - hist.offs[p])

\* C4 amended: totalsByNote[p] is the running net of the events for pitch p,
\* +1 per On and -1 per Off, floored at zero at every Off (not once at the
\* end): an Off that finds the total at zero is not counted.
C4_RunningNetClamped ==
    ~hist.cleared =>
        \A p \in NoteNumbers : highlightState.totalsByNote[p] = hist.net[p]

\* an Off that was floored, then an On: the total is 1, the final net is 0
C4_Witness ==
    /\ ~hist.cleared
    /\ \E p \in NoteNumbers :
        /\ hist.ons[p] = 1
        /\ hist.offs[p] = 1
        /\ hist.net[p] = 1
        /\ highlightState.totalsByNote[p] = 1

\* C5: an Off event for a (source, pitch) pair whose count is 0 leaves
\* countsByActiveKey, sourcesByNote and totalsByNote unchanged for every
\* source and pitch.
C5_UnmatchedOffIsNoOp ==
    [][(/\ last'.op = "apply"
        /\ last'.arg.type = "off"
        /\ last'.arg.noteNumber \in NoteNumbers
        /\ ~MapHas(highlightState.countsByActiveKey, ActiveKey(last'.arg.sourceKey, last'.arg.noteNumber)))
       => highlightState' = highlightState]_vars

---------------------------------------------------------------------------
(* Uninterrupted playback (SpecPlay). *)

\* positions in a sorted due list of the Off and On of pitch p by source s at time t
OffAt(due, p, s, t) == {i \in DOMAIN due : due[i] = HighlightEvent("off", p, s, t)}

OnAt(due, p, s, t) == {i \in DOMAIN due : due[i] = HighlightEvent("on", p, s, t)}

\* a flush whose due events for pitch p are one Off and one On by s, both at t
CoincidentPair(due, p, s, t) ==
    /\ Cardinality(OffAt(due, p, s, t)) = 1
    /\ Cardinality(OnAt(due, p, s, t)) = 1
    /\ Cardinality({i \in DOMAIN due : due[i].noteNumber = p}) = 2

DueTimes(due) == {due[i].timeMs : i \in DOMAIN due}

\* C2: when a flush has an Off and an On of the same pitch by the same source
\* due at the same time, the Off is applied before the On in one batch, and a
\* pitch that was dark or held once is lit afterwards (total 1, pair active).
C2_NoFlicker ==
    [][ \A p \in NoteNumbers, s \in SourceKeys :
          (/\ last'.op = "tick"
           /\ nextTickAt' # nextTickAt
           /\ \E t \in DueTimes(last'.arg.due) : CoincidentPair(last'.arg.due, p, s, t)
           /\ highlightState.totalsByNote[p] <= 1
           /\ highlightState.totalsByNote[p] = MapGetOr(highlightState.countsByActiveKey, ActiveKey(s, p), 0))
          => /\ \A t \in DueTimes(last'.arg.due) : CoincidentPair(last'.arg.due, p, s, t) =>
                    \A i \in OffAt(last'.arg.due, p, s, t), j \in OnAt(last'.arg.due, p, s, t) : i < j
             /\ highlightState'.totalsByNote[p] = 1
             /\ MapGetOr(highlightState'.countsByActiveKey, ActiveKey(s, p), 0) = 1 ]_vars

\* a flush applied a coincident Off/On pair and left the pitch lit
C2_Witness ==
    /\ last.op = "tick"
    /\ \E t \in DueTimes(last.arg.due) : CoincidentPair(last.arg.due, 60, "0", t)
    /\ highlightState.totalsByNote[60] = 1

SingleNoteSong == Len(midiData.tracks) = 1 /\ Len(midiData.tracks[1].notes) = 1

TheNote == midiData.tracks[1].notes[1]

\* C6: a single note played without transport changes is lit after every
\* flush at a song time in [start, start+d) and dark after every flush at a
\* song time >= start+d.
C6_ScenarioA ==
    (SingleNoteSong /\ last.op = "tick") =>
        /\ (RLe(TheNote.time, last.arg.songTime) /\ RLt(last.arg.songTime, RAdd(TheNote.time, TheNote.duration)))
              => highlightState.totalsByNote[TheNote.midi] = 1
        /\ RLe(RAdd(TheNote.time, TheNote.duration), last.arg.songTime)
              => highlightState.totalsByNote[TheNote.midi] = 0

---------------------------------------------------------------------------
(* The transport (Spec). *)

REq(a, b) == RLe(a, b) /\ RLe(b, a)

\* the transport's song time in the next state
SongTimeAfter == IF isPlaying' THEN songTimeAt(FromInt(now'), startTimeRef', playbackRate') ELSE pauseTimeRef'

\* C7: a rate change leaves the song time where it was, playing or paused.
C7_RateContinuity ==
    [][ (last'.op = "rate" /\ ops' = ops + 1) => REq(SongTimeAfter, SongTime) ]_vars

\* the rate was changed during playback, after the song had moved on
C7_Witness ==
    /\ last.op = "rate"
    /\ isPlaying
    /\ startTimeRef # Zero
    /\ RLt(Zero, SongTime)

\* C8: play after a pause at song time T, with only rate changes in between,
\* starts at song time T: the epoch is now - T * 1000 / playbackRate.
C8_ResumeAtPauseTime ==
    [][ (last'.op = "play" /\ ops' = ops + 1 /\ PausedAt # NoTime)
          => /\ REq(SongTimeAfter, PausedAt)
             /\ REq(startTimeRef', epochFor(NowMs, PausedAt, playbackRate')) ]_vars

InputCounts(state) ==
    [p \in NoteNumbers |-> << MapGetOr(state.countsByActiveKey, ActiveKey("input", p), 0),
                              MapGetOr(state.sourcesByNote[p], "input", 0) >>]

\* the keys and per-note sources a state holds for the given source keys
EntriesOf(state, sources) ==
    [counts |-> {k \in DOMAIN state.countsByActiveKey : KeySource(k) \in sources},
     sources |-> [p \in NoteNumbers |-> DOMAIN state.sourcesByNote[p] \cap sources]]

NoEntries == [counts |-> {}, sources |-> [p \in NoteNumbers |-> {}]]

PlaybackSources == SourceKeys \ {"input"}

\* C9: a second seek(t) right after a seek(t) changes neither the cursors nor
\* the highlight state, and the queue is empty after both.
C9_SeekIdempotent ==
    [][ (last'.op = "seek" /\ ops' = ops + 1 /\ last'.arg.again)
          => /\ nextNoteIndexRefs' = nextNoteIndexRefs
             /\ highlightState' = highlightState
             /\ highlightQueueRef = <<>>
             /\ highlightQueueRef' = <<>> ]_vars

\* seek(t) twice during playback, past the first notes, with a key held on the input
C9_Witness ==
    /\ last.op = "seek"
    /\ last.arg.again
    /\ last.arg.time # Zero
    /\ isPlaying
    /\ MapHas(highlightState.countsByActiveKey, ActiveKey("input", 60))

ClearingOps == {"pause", "stop", "seek", "undo", "redo", "autoStop"}

\* C10: pause, stop, seek, undo, redo and auto-stop leave no playback entry
\* and hideTrack none of the hidden track, while the live-input counts and the
\* entries of every other source stay as they were.
C10_ClearsKeepInput ==
    [][ /\ (last'.op \in ClearingOps /\ (ops' = ops + 1 \/ (isPlaying /\ ~isPlaying')))
            => /\ InputCounts(highlightState') = InputCounts(highlightState)
               /\ EntriesOf(highlightState', PlaybackSources) = NoEntries
        /\ (last'.op = "hideTrack" /\ ops' = ops + 1)
            => /\ InputCounts(highlightState') = InputCounts(highlightState)
               /\ EntriesOf(highlightState', {last'.arg}) = NoEntries
               /\ EntriesOf(highlightState', SourceKeys \ {last'.arg}) = EntriesOf(highlightState, SourceKeys \ {last'.arg}) ]_vars

\* track 0 was hidden while it, track 1 and the input device all held notes
C10_Witness ==
    /\ last.op = "hideTrack"
    /\ last.arg = "0"
    /\ MapHas(highlightState.countsByActiveKey, ActiveKey("input", 60))
    /\ MapHas(highlightState.countsByActiveKey, ActiveKey("1", 61))
    /\ highlightState.totalsByNote[60] = 1

---------------------------------------------------------------------------
(* The highlight queue (SpecFlush). *)

\* a before b in the dispatch order: time, Off before On, pitch, source key
DispatchKeyLe(a, b) ==
    \/ RLt(a.timeMs, b.timeMs)
    \/ /\ a.timeMs = b.timeMs
       /\ \/ a.type = "off" /\ b.type = "on"
          \/ /\ a.type = b.type
             /\ \/ a.noteNumber < b.noteNumber
                \/ a.noteNumber = b.noteNumber /\ SourceRank(a.sourceKey) <= SourceRank(b.sourceKey)

\* the positions of the queue whose events are due at nowMs
DuePositions(queue, nowMs) == {i \in 1..Len(queue) : RLe(queue[i].timeMs, nowMs)}

\* the orders in which the due events of the queue can be taken, each once
DueOrders(queue, nowMs) ==
    LET D == DuePositions(queue, nowMs)
    IN  {f \in [1..Cardinality(D) -> D] : \A i, j \in 1..Cardinality(D) : i # j => f[i] # f[j]}

\* C11: flush(nowMs) leaves in the queue exactly the events with timeMs >
\* nowMs, in their order, and applies the events with timeMs <= nowMs, each
\* once, ordered by time, then Off before On, then pitch, then source key,
\* whatever the order they were pushed in.
C11_FlushPartitionsAndOrders ==
    [][last'.op = "flush" =>
        LET nowMs == last'.arg.nowMs
        IN  /\ highlightQueueRef' = SelectSeq(highlightQueueRef, LAMBDA e : RLt(nowMs, e.timeMs))
            /\ \E f \in DueOrders(highlightQueueRef, nowMs) :
                /\ \A i, j \in DOMAIN f : i < j => DispatchKeyLe(highlightQueueRef[f[i]], highlightQueueRef[f[j]])
                /\ highlightState' = applyHighlightEvents(highlightState, [k \in DOMAIN f |-> highlightQueueRef[f[k]]])
    ]_vars

\* a flush at 10 ms of a queue that held, pushed in this order, an event for
\* later, an On due at the flush instant and the Off of the same instant
C11_Witness ==
    /\ last.op = "flush"
    /\ last.arg.nowMs = FromInt(10)
    /\ last.arg.before = << HighlightEvent("on", 61, "1", FromInt(20)),
                            HighlightEvent("on", 60, "0", FromInt(10)),
                            HighlightEvent("off", 60, "0", FromInt(10)) >>
    /\ highlightQueueRef = << HighlightEvent("on", 61, "1", FromInt(20)) >>
    /\ MapGetOr(highlightState.totalsByNote, 60, 0) = 1

---------------------------------------------------------------------------
(* Playback into an output device (SpecSink). *)

\* a step that is one run of scheduleNotes
TickStep == isPlaying /\ now = nextTickAt /\ nextTickAt' = now + SCHEDULE_INTERVAL /\ last'.op = "tick"

\* the events of a list that belong to a source
OfSource(events, sourceKey) == SelectSeq(events, LAMBDA e : e.sourceKey = sourceKey)

\* what a run of scheduleNotes that no throw ends pushes for a track when the
\* track is not muted
PushedUnmuted(t) ==
    LET tracks == [midiData.tracks EXCEPT ![t].isMuted = FALSE]
        env == SchedulerEnv(NowMs, songTimeAt(NowMs, startTimeRef, playbackRate), playbackRate, outputSettings, 0)
        queue == scheduleNotes(tracks, nextNoteIndexRefs, highlightQueueRef, env).queue
    IN  OfSource(SubSeq(queue, Len(highlightQueueRef) + 1, Len(queue)), String(tracks[t].id))

\* C12: in every scheduler run a hidden track, muted or not, gets no sink
\* call and no HighlightEvent; a muted track that is not hidden gets no sink
\* call and the HighlightEvents it would get unmuted.
C12_HiddenAndMutedIndependent ==
    [][TickStep =>
        \A t \in DOMAIN midiData.tracks :
            LET track == midiData.tracks[t]
                pushed == OfSource(last'.arg.pushed, String(track.id))
                calls == OfSource(last'.arg.calls, String(track.id))
            IN  /\ track.isHidden => pushed = <<>> /\ calls = <<>>
                /\ track.isMuted /\ ~track.isHidden => calls = <<>>
                /\ track.isMuted /\ ~track.isHidden /\ ~last'.arg.threw => pushed = PushedUnmuted(t)
    ]_vars

\* a run with a device selected in which the muted, visible track 0 got its
\* HighlightEvents and no sink call while track 1 got sink calls
C12_Witness ==
    /\ last.op = "tick"
    /\ outputSettings.deviceId # NoDevice
    /\ midiData.tracks[1].isMuted /\ ~midiData.tracks[1].isHidden
    /\ ~midiData.tracks[2].isMuted /\ ~midiData.tracks[2].isHidden
    /\ OfSource(last.arg.pushed, "0") # <<>>
    /\ OfSource(last.arg.calls, "0") = <<>>
    /\ OfSource(last.arg.calls, "1") # <<>>
    /\ OfSource(last.arg.pushed, "1") # <<>>

\* C13: in every scheduler run that no throw ends, the due times of the
\* HighlightEvents pushed for a track are the timestamps of the sink calls
\* made for it: On at the sendNoteOn timestamp (dispatchOnMs, which includes
\* the latency compensation), Off at the sendNoteOff timestamp, for every
\* latency value and every dispatched note.
C13_HighlightDueAtDispatch ==
    [][TickStep /\ ~last'.arg.threw =>
        \A t \in DOMAIN midiData.tracks :
            LET pushed == OfSource(last'.arg.pushed, String(midiData.tracks[t].id))
                calls == OfSource(last'.arg.calls, String(midiData.tracks[t].id))
            IN  calls # <<>> =>
                    /\ Len(pushed) = Len(calls)
                    /\ \A i \in DOMAIN calls : pushed[i].timeMs = calls[i].timestamp
    ]_vars

\* a note the loader can deliver: a pitch of 0..127, no negative time or length
WellFormed(note) == note.midi \in 0..(NOTE_COUNT - 1) /\ RLe(Zero, note.time) /\ RLe(Zero, note.duration)

\* the indexes of a track's notes the cursor moved over in this step
Passed(t) == {i \in DOMAIN midiData.tracks[t].notes : nextNoteIndexRefs[t] < i /\ i <= nextNoteIndexRefs'[t]}

\* the cursors a run of scheduleNotes leaves when no sink call throws
CursorsWithoutThrow ==
    scheduleNotes(midiData.tracks, nextNoteIndexRefs, highlightQueueRef,
                  SchedulerEnv(NowMs, songTimeAt(NowMs, startTimeRef, playbackRate), playbackRate, outputSettings, 0)).indexes

\* C20: a scheduler run that moves the cursor of a track only over
\* malformed notes makes no sink call and pushes no HighlightEvent for the
\* track; and a run in which a sink call throws leaves the cursors where the
\* run without the throw leaves them.
C20_MalformedDroppedThrowContained ==
    [][TickStep =>
        /\ \A t \in DOMAIN midiData.tracks :
              (Passed(t) # {} /\ \A i \in Passed(t) : ~WellFormed(midiData.tracks[t].notes[i])) =>
                  /\ OfSource(last'.arg.pushed, String(midiData.tracks[t].id)) = <<>>
                  /\ OfSource(last'.arg.calls, String(midiData.tracks[t].id)) = <<>>
        /\ last'.arg.threw => nextNoteIndexRefs' = CursorsWithoutThrow
    ]_vars

---------------------------------------------------------------------------
(* The end of the song (SpecPlay). *)

\* C14: a scheduler run at a song time at or past the duration stops the
\* transport: isPlaying false, song time 0, cursors at 0, the queue dropped,
\* history and redo stack as they were; no render frame is needed for it.
C14_TickStopsAtEnd ==
    [][(TickStep /\ RLe(midiData.duration, songTimeAt(NowMs, startTimeRef, playbackRate))) =>
        /\ ~isPlaying'
        /\ pauseTimeRef' = Zero
        /\ currentTime' = Zero
        /\ nextNoteIndexRefs' = zeroPointers(midiData)
        /\ highlightQueueRef' = <<>>
        /\ history' = history
        /\ future' = future
    ]_vars

---------------------------------------------------------------------------
(* Undo history (Spec). *)

\* a step of a transport handler called from the playback controls
UiTransportStep ==
    /\ ops' = ops + 1
    /\ \/ last'.op \in {"pause", "seek", "rate"}
       \/ last'.op \in {"play", "stop"} /\ last'.arg = "ui"

\* C15: play/pause, stop, seek and rate change each push the snapshot
\* {isPlaying, the song time at that moment, playbackRate} of the state they
\* start in, keep at most 20 entries and empty the redo stack.
C15_SnapshotBeforeMutation ==
    [][UiTransportStep =>
        /\ history' = Append(LastN(history, HistoryKeep), Snapshot(isPlaying, SongTime, playbackRate))
        /\ Len(history') <= HistoryKeep + 1
        /\ future' = <<>>
    ]_vars

\* an undo that directly follows a seek, at the same instant
UndoAfterSeek == last.op = "seek" /\ last.arg.at = now /\ last'.op = "undo"

\* C16: undo() directly after seek(t) from song time T0 and rate R0 restores
\* T0 and R0, sets the cursors for T0 and, if the song was playing before
\* the seek, arms the deferred resume from T0.
C16_UndoAfterSeekRestores ==
    [][UndoAfterSeek =>
        LET before == last.arg.before
        IN  /\ pauseTimeRef' = before.time
            /\ currentTime' = before.time
            /\ playbackRate' = before.rate
            /\ nextNoteIndexRefs' = resetPointers(midiData, before.time)
            /\ before.playing =>
                  [at |-> now + ResumeDelay, currentTime |-> before.time, playbackRate |-> before.rate] \in resumeTimers'
    ]_vars

---------------------------------------------------------------------------
(* Arguments out of range (SpecCalls, SpecControls). *)

ClampToSong(t) == RMax(Zero, RMin(midiData.duration, t))

\* C18: after handleSeek(t) the paused song time, the displayed time and,
\* while playing, the epoch are those of clamp(t, 0, duration).
C18_SeekClamps ==
    [][(ops' = ops + 1 /\ last'.op = "seek") =>
        LET clamped == ClampToSong(last'.arg.time)
        IN  /\ pauseTimeRef' = clamped
            /\ currentTime' = clamped
            /\ isPlaying => startTimeRef' = epochFor(NowMs, clamped, playbackRate)
    ]_vars

---------------------------------------------------------------------------
(* Hiding a track (Spec). *)

\* the positions of the queue whose events are not of the source
OtherPositions(queue, sourceKey) == {i \in DOMAIN queue : queue[i].sourceKey # sourceKey}

\* C19: right after hideTrack(id) the queue holds no event of source id and
\* the highlight state no active entry of it, while the queued events of the
\* other sources, in their order, and the counts of the other sources, the
\* live input among them, are what they were.
C19_HideDropsOnlyOwnEvents ==
    [][(ops' = ops + 1 /\ last'.op = "hideTrack") =>
        LET id == last'.arg
        IN  /\ \A i \in DOMAIN highlightQueueRef' : highlightQueueRef'[i].sourceKey # id
            /\ Len(highlightQueueRef') = Cardinality(OtherPositions(highlightQueueRef, id))
            /\ \A i \in DOMAIN highlightQueueRef' :
                   \E j \in OtherPositions(highlightQueueRef, id) :
                       /\ Cardinality({k \in OtherPositions(highlightQueueRef, id) : k <= j}) = i
                       /\ highlightQueueRef'[i] = highlightQueueRef[j]
            /\ \A key \in DOMAIN highlightState'.countsByActiveKey : KeySource(key) # id
            /\ \A key \in DOMAIN highlightState.countsByActiveKey :
                   KeySource(key) # id =>
                       /\ key \in DOMAIN highlightState'.countsByActiveKey
                       /\ highlightState'.countsByActiveKey[key] = highlightState.countsByActiveKey[key]
    ]_vars

\* track 0 was hidden while events of it and of track 1 were queued and a
\* key was held on the input: the events of track 1 are still queued
C19_Witness ==
    /\ last.op = "hideTrack"
    /\ last.arg = "0"
    /\ last.dropped > 0
    /\ \E i \in DOMAIN highlightQueueRef : highlightQueueRef[i].sourceKey = "1"
    /\ MapHas(highlightState.countsByActiveKey, ActiveKey("input", 60))

---------------------------------------------------------------------------
(* Cancellation at the output (SpecCancel). *)

\* the note-ons handed to the output before the call at position j, with a
\* timestamp later than that call's
FutureNoteOnsAt(j) ==
    {i \in 1..(j - 1) : /\ sinkCalls[i].kind = "noteOn"
                         /\ ~sinkCalls[i].threw
                         /\ RLt(sinkCalls[j].timestamp, sinkCalls[i].timestamp)}

\* C21: after a panic, no note-on that had been handed to the output before
\* it with a timestamp still in the future is sent by the output.
C21_PanicCancelsFutureDispatch ==
    \A j \in DOMAIN sinkCalls :
        sinkCalls[j].kind = "panic" =>
            \A i \in FutureNoteOnsAt(j) :
                \A k \in DOMAIN sinkDelivered(sinkCalls, NowMs) : sinkDelivered(sinkCalls, NowMs)[k] # sinkCalls[i]

---------------------------------------------------------------------------
(* File load (SpecLoad). *)

\* C22: when the parse of an uploaded file has resolved and the song is
\* installed, the history and the redo stack are empty, the transport is
\* stopped at song time 0 and every cursor is 0, whatever was done while the
\* parse was pending.
C22_LoadResetsTransport ==
    [][last'.op = "loaded" /\ pendingParse # {} /\ pendingParse' = {} =>
        /\ history' = <<>>
        /\ future' = <<>>
        /\ ~isPlaying'
        /\ SongTimeAfter = Zero
        /\ nextNoteIndexRefs' = zeroPointers(midiData')
    ]_vars

---------------------------------------------------------------------------
(* Repeated notes (SpecRepeat). *)

StaccatoFirst == SongStaccato.tracks[1].notes[1]

StaccatoSecond == SongStaccato.tracks[1].notes[2]

\* the notes of the track that sound at a song time: start <= t < start + duration
SoundingAt(songTime) ==
    {i \in DOMAIN midiData.tracks[1].notes :
        /\ RLe(midiData.tracks[1].notes[i].time, songTime)
        /\ RLt(songTime, RAdd(midiData.tracks[1].notes[i].time, midiData.tracks[1].notes[i].duration))}

\* C23 as stated: with the two staccato notes, no flush strictly between
\* the On of the first and the Off of the second leaves totalsByNote[pitch]
\* at 0.
C23_NoDarkFlushBetweenStaccato ==
    (/\ midiData = SongStaccato
     /\ last.op = "tick"
     /\ RLt(StaccatoFirst.time, last.arg.songTime)
     /\ RLt(last.arg.songTime, RAdd(StaccatoSecond.time, StaccatoSecond.duration)))
        => highlightState.totalsByNote[StaccatoFirst.midi] # 0

\* C23 amended: a flush strictly between the On of the first staccato note
\* and the Off of the second leaves totalsByNote[pitch] at the number of
\* notes of the pitch sounding at the flush: 1 while one of the two sounds,
\* 0 only in the gap between them (and never 0 in the Repeated Note Test
\* pattern, whose overlapping notes fill the gap).
C23_FlushShowsSoundingNotes ==
    (/\ last.op = "tick"
     /\ RLt(StaccatoFirst.time, last.arg.songTime)
     /\ RLt(last.arg.songTime, RAdd(StaccatoSecond.time, StaccatoSecond.duration)))
        => /\ highlightState.totalsByNote[StaccatoFirst.midi] = Cardinality(SoundingAt(last.arg.songTime))
           /\ midiData = SongRepeatedNoteTest => highlightState.totalsByNote[StaccatoFirst.midi] # 0

\* at rate 1 the flush at 125 ms falls in the gap of the staccato pair: the
\* first note has been lit and is dark again, the second is queued
C23_Witness ==
    /\ midiData = SongStaccato
    /\ last.op = "tick"
    /\ last.arg.songTime = R(1, 8)
    /\ playbackRate = FromInt(1)
    /\ highlightState.totalsByNote[60] = 0
    /\ nextNoteIndexRefs[1] = 2
    /\ Len(highlightQueueRef) = 2

---------------------------------------------------------------------------
(* The track cursors (SpecLoad). *)

\* a step of a handler or timer callback other than the clock and the frames
HandlerStep == ops' = ops + 1 \/ last'.op # last.op

\* index (0-based) is where a search for the first note ending at or after
\* the time stops: every note before it ends earlier, and the note at it,
\* if there is one, does not
StopsAtFirstEnding(notes, index, time) ==
    /\ index \in 0..Len(notes)
    /\ \A i \in 1..index : RLt(RAdd(notes[i].time, notes[i].duration), time)
    /\ index < Len(notes) => RLe(time, RAdd(notes[index + 1].time, notes[index + 1].duration))

---------------------------------------------------------------------------
(* The life of a queued event (Spec). *)

\* the elements of a sequence at the positions K, in their order
SubSeqAt(seq, K) ==
    [i \in 1..Cardinality(K) |-> seq[CHOOSE k \in K : Cardinality({j \in K : j <= k}) = i]]

\* the orders in which the positions S can be taken, each once
OrdersOf(S) == {f \in [1..Cardinality(S) -> S] : \A i, j \in 1..Cardinality(S) : i # j => f[i] # f[j]}

\* the ways of splitting the events all into those still queued (kept, in
\* their order) and the others
SplitsOf(all, kept) == {K \in SUBSET DOMAIN all : Cardinality(K) = Len(kept) /\ SubSeqAt(all, K) = kept}

---------------------------------------------------------------------------
(* The transport at rest (Spec). *)

---------------------------------------------------------------------------
(* Dispatch of every note (SpecDispatch). *)

\* the sink calls of a run that are note-ons and note-offs of a source
NoteCallsOf(calls, sourceKey) == SelectSeq(calls, LAMBDA c : c.sourceKey = sourceKey /\ c.kind \in {"noteOn", "noteOff"})

\* C27: in uninterrupted playback from song time 0 with the scheduler run
\* every 25 ms, a run that no throw ends dispatches every note its cursor
\* moves over, once: an On and an Off HighlightEvent of the note's pitch,
\* and a note-on and a note-off sink call if the track is not muted and a
\* device is selected (and no sink call otherwise).
C27_EveryNoteDispatchedOnce ==
    [][(TickStep /\ ~last'.arg.threw) =>
        \A t \in DOMAIN midiData.tracks :
            LET track == midiData.tracks[t]
                pushed == OfSource(last'.arg.pushed, String(track.id))
                calls == NoteCallsOf(last'.arg.calls, String(track.id))
                sounds == ~track.isMuted /\ outputSettings.deviceId # NoDevice
            IN  ~track.isHidden =>
                    /\ Len(pushed) = 2 * Cardinality(Passed(t))
                    /\ Len(calls) = IF sounds THEN 2 * Cardinality(Passed(t)) ELSE 0
                    /\ \A i \in Passed(t) :
                           LET k == i - nextNoteIndexRefs[t]
                           IN  /\ pushed[2 * k - 1].type = "on" /\ pushed[2 * k - 1].noteNumber = track.notes[i].midi
                               /\ pushed[2 * k].type = "off" /\ pushed[2 * k].noteNumber = track.notes[i].midi
                               /\ sounds => /\ calls[2 * k - 1].kind = "noteOn" /\ calls[2 * k - 1].note = track.notes[i].midi
                                             /\ calls[2 * k].kind = "noteOff" /\ calls[2 * k].note = track.notes[i].midi
    ]_vars

---------------------------------------------------------------------------
(* The deferred resume (Spec). *)

\* a step in which a timer of performUndo / performRedo fires
ResumeStep == last'.op = "resume" /\ resumeTimers' # resumeTimers

\* C28: a deferred resume that fires after a stop, pause or seek made since
\* the undo / redo that armed it leaves the transport as that action left
\* it: playing or not, the paused time, the epoch and the song time.
C28_ResumeDoesNotOverride ==
    [][(ResumeStep /\ last.op \in {"stop", "pause", "seek"}) =>
        /\ isPlaying' = isPlaying
        /\ pauseTimeRef' = pauseTimeRef
        /\ startTimeRef' = startTimeRef
        /\ SongTimeAfter = SongTime
    ]_vars

---------------------------------------------------------------------------
(* The size of the undo and redo stacks (SpecHistory). *)

\* C29: the history stack and the redo stack together hold at most 20
\* snapshots, so the history stack never exceeds 20 entries, redo included.
C29_StacksHoldAtMostTwenty ==
    /\ Len(history) + Len(future) <= HistoryKeep + 1
    /\ Len(history) <= HistoryKeep + 1

\* a redo that brought the history stack back to 20 entries
C29_Witness ==
    /\ last.op = "redo"
    /\ Len(history) = HistoryKeep + 1
    /\ future = <<>>

---------------------------------------------------------------------------
(* Visibility of short notes (SpecRepeat). *)

\* C30: in uninterrupted playback with the scheduler run every 25 ms, a note
\* of positive duration is shown: when the flush of a run applies the Off of
\* a note, the note's (track, pitch) pair is in the active set of the state
\* the flush found, published by an earlier flush, or of the state it
\* publishes.
C30_DispatchedNoteBecomesVisible ==
    [][TickStep =>
        \A i \in DOMAIN last'.arg.due :
            last'.arg.due[i].type = "off" =>
                \/ ActiveKey(last'.arg.due[i].sourceKey, last'.arg.due[i].noteNumber) \in buildActiveNotesSet(highlightState)
                \/ ActiveKey(last'.arg.due[i].sourceKey, last'.arg.due[i].noteNumber) \in buildActiveNotesSet(highlightState')
    ]_vars

\* the Off of the same (source, pitch) pair follows the event at index i in
\* the sorted due list of one flush
OffFollowsIn(due, i) ==
    \E j \in DOMAIN due :
        /\ j > i
        /\ due[j].type = "off"
        /\ due[j].sourceKey = due[i].sourceKey
        /\ due[j].noteNumber = due[i].noteNumber

\* C30 (amended): the flush that applies the On of a note publishes a state
\* with the note's (track, pitch) pair in the active set, unless an Off of the
\* pair is due at the same flush after it; a note whose On and Off are both
\* due at one flush is folded into one transition and need not be shown.
C30_NoteVisibleUnlessEndedInSameFlush ==
    [][TickStep =>
        \A i \in DOMAIN last'.arg.due :
            (last'.arg.due[i].type = "on" /\ ~OffFollowsIn(last'.arg.due, i)) =>
                ActiveKey(last'.arg.due[i].sourceKey, last'.arg.due[i].noteNumber) \in buildActiveNotesSet(highlightState')
    ]_vars

\* a flush has shown a note shorter than the scheduler interval: the first
\* staccato note (20 ms at rate 1) is lit after the run that applied its On
C30_Witness ==
    /\ midiData = SongStaccato
    /\ playbackRate = FromInt(1)
    /\ last.op = "tick"
    /\ \E i \in DOMAIN last.arg.due :
           /\ last.arg.due[i].type = "on"
           /\ ~OffFollowsIn(last.arg.due, i)
           /\ ActiveKey(last.arg.due[i].sourceKey, last.arg.due[i].noteNumber) \in buildActiveNotesSet(highlightState)

====
